---- MODULE Spec2Model ----
(***************************************************************************)
(* A model of the simplecrawler control loop (src/src/crawler.ts) and its  *)
(* fetch queue (src/src/queue.ts).                                         *)
(*                                                                         *)
(* The crawler runs on one event loop.  Every action below is one turn of  *)
(* that loop: a user call (start, stop, queueURL, wait), an interval tick, *)
(* the completion of a queue operation, or an I/O event on a request.      *)
(* The queue methods oldestUnfetchedItem, update, countItems and getLength *)
(* complete on a later turn, each method in call order, as with the        *)
(* setTimeout wrappers of the reliability test; queue.add is the           *)
(* synchronous add of the default queue.                                   *)
(*                                                                         *)
(* What is modelled of a request: its socket delivers the response, a      *)
(* timeout or an error while the request waits for the response or for     *)
(* body chunks, or while its response is left unread; once the timeout     *)
(* listener has run, the socket delivers nothing more before abort().      *)
(* Download conditions are evaluated in the turn of the callback that      *)
(* dispatches the response.  In Spec every URL parses and has a valid      *)
(* domain, no fetch conditions are registered, there is no cache and no    *)
(* sitemap, and maxDepth is unlimited.  AdmitSpec models queueURL with     *)
(* domain rules, robots rules and fetch conditions; DepthSpec models the   *)
(* depth of items with maxDepth, redirects and sitemaps.  QueueSpec and    *)
(* AddUpdateSpec drive FetchQueue through its own methods, ConditionSpec   *)
(* the arrays of fetch and download conditions, CookieSpec the cookie jar. *)
(* HostSpec follows Crawler.host under redirects with several requests     *)
(* open, DomainSpec calls domainValid under every setting of the fields it *)
(* reads, and FreezeSpec is Spec with one queue.freeze at any time.        *)
(* In the crawl the queue's methods do not call back with errors.          *)
(***************************************************************************)
EXTENDS Integers, Sequences, FiniteSets, TLC

\* ------------------------------------------------------------------ bounds
NUrls == 2              \* URLs 1..NUrls; URL 1 is the crawler's initialURL
MaxConcurrency == 1     \* crawler.maxConcurrency
MaxStarts == 2          \* start() calls that take effect
MaxUserCalls == 1       \* stop(), queueURL() and wait() calls by the user
MaxChecks == 2          \* completion checks pending at the same time
MaxPicks == 2           \* oldestUnfetchedItem calls pending at the same time
CountCap == 2           \* event counters saturate here
NOrigins == 3           \* origins of the URLs that queueURL is called with
MaxConditions == 2      \* slots of _fetchConditions
MaxAdmissions == 2      \* queueURL calls of the admission specification
NDepthUrls == 4         \* URLs 1..NDepthUrls of the depth specification
MaxMaxDepth == 3        \* crawler.maxDepth is one of 0..MaxMaxDepth
MaxQueueLen == 2        \* items in the queue of the queue specification
NHostUrls == 4          \* URLs 1..NHostUrls of the host specification
HostConcurrency == 2    \* crawler.maxConcurrency of the host specification
MaxJar == 2             \* cookies in the jar of the cookie specification
MaxSlots == 2           \* slots of a condition array in the specification
                        \* of addFetchCondition and removeFetchCondition

Urls == 1..NUrls
InitialURL == 1
QUEUE_ITEM_INITIAL_DEPTH == 1

\* The origin (scheme, host, port) of a URL: URLs 1,2 share the first origin.
OriginOf(u) == (u + 1) \div 2

\* The site: the links found in the body of a URL, the URLs its robots.txt
\* disallows, and the target of a redirect response.
LinksOf(u) == {v \in Urls : v = u + 1}
DisallowedUrls == {u \in Urls : u % 2 = 0}
RedirectTarget(u) == IF u + 1 \in Urls THEN u + 1 ELSE u

\* What a response can be: 2xx with a supported or an unsupported mimetype,
\* a content-length above maxResourceSize, 304, 3xx with a Location that
\* processURL accepts or rejects, 404/410, any other status.
ResponseKinds ==
  {"ok", "binary", "oversize", "notmodified", "redirect", "badredirect",
   "notfound", "failed"}

\* The outcome of the download conditions.
ConditionOutcomes == {"pass", "prevent", "error"}

VARIABLES
  queue,                  \* FetchQueue: the array of queue items
  oldestUnfetchedIndex,   \* FetchQueue._oldestUnfetchedIndex
  scanIndex,              \* FetchQueue._scanIndex
  running,                \* Crawler.running
  crawlIntervalID,        \* Crawler.crawlIntervalID (0: undefined)
  timers,                 \* the interval timers that are active
  timersMade,             \* number of setInterval calls so far
  pendingSetup,           \* process.nextTick callbacks queued by start()
  fetchingRobotsTxt,      \* Crawler.fetchingRobotsTxt
  fetchingQueueItem,      \* Crawler.fetchingQueueItem
  touchedHosts,           \* Crawler._touchedHosts
  robotsTxts,             \* Crawler._robotsTxts (origins with parsed rules)
  robotsFetch,            \* queue item ids whose robots.txt fetch is in flight
  openRequests,           \* Crawler._openRequests
  requests,               \* every clientRequest created so far
  openListeners,          \* Crawler._openListeners
  holds,                  \* the closures returned by wait()
  pendPick,               \* oldestUnfetchedItem calls not yet completed
  pendUpdate,             \* queue.update calls not yet completed
  pendCount,              \* countItems calls not yet completed
  pendLength,             \* getLength calls not yet completed
  respectRobotsTxt,       \* Crawler.respectRobotsTxt
  userCalls,              \* stop, queueURL and wait calls the user has made
  calls,                  \* the start() and stop() calls so far, in order
  domainConfig,           \* filterByDomain, ignoreWWWDomain, scanSubdomains,
                          \* domainWhitelist
  fetchConditions,        \* Crawler._fetchConditions
  admissions,             \* the queueURL calls of the admission specification
  maxDepth,               \* Crawler.maxDepth
  depths,                 \* the depth field of each queue item
  isFirstRequest,         \* Crawler._isFirstRequest
  host,                   \* Crawler.host
  allowInitialDomainChange, \* Crawler.allowInitialDomainChange
  seedChain,              \* ids of the initial URL's item and of the items
                          \* queued by redirects of items of this set
  file,                   \* the file that FetchQueue.freeze writes
  lastCall,               \* the last call of the queue, condition and cookie
                          \* specifications, with what it returned
  downloadConditions,     \* Crawler._downloadConditions
  cookies,                \* CookieJar.cookies
  hist,                   \* per queue item: events emitted for it
  completes               \* complete events since the last start()

vars ==
  <<queue, oldestUnfetchedIndex, scanIndex, running, crawlIntervalID, timers,
    timersMade, pendingSetup, fetchingRobotsTxt, fetchingQueueItem,
    touchedHosts, robotsTxts, robotsFetch, openRequests, requests,
    openListeners, holds, pendPick, pendUpdate, pendCount, pendLength,
    respectRobotsTxt, userCalls, calls, domainConfig, fetchConditions,
    admissions, maxDepth, depths, isFirstRequest, host,
    allowInitialDomainChange, seedChain, file, lastCall,
    downloadConditions, cookies, hist, completes>>

queueVars == <<queue, oldestUnfetchedIndex, scanIndex>>
timerVars == <<running, crawlIntervalID, timers, timersMade, pendingSetup>>
robotsVars == <<touchedHosts, robotsTxts, robotsFetch, fetchingRobotsTxt>>
holdVars == <<openListeners, holds>>
checkVars == <<pendCount, pendLength>>
admitVars == <<domainConfig, fetchConditions, admissions>>
depthVars == <<maxDepth, depths, isFirstRequest>>
hostVars == <<host, allowInitialDomainChange, seedChain>>
apiVars == <<file, lastCall, downloadConditions, cookies>>
configVars == <<respectRobotsTxt, admitVars, depthVars, hostVars, apiVars>>
userVars == <<userCalls, calls>>

\* No call of the queue, condition and cookie specifications made yet.
NoCall == [op |-> "", error |-> "", value |-> 0]

\* ------------------------------------------------------------ FetchQueue
Inc(n) == IF n < CountCap THEN n + 1 ELSE n

\* The events recorded for an item: the number of fetchstart events and of
\* terminal events, and whether queueadd, fetchheaders and fetchcomplete
\* were emitted.
NoHist ==
  [starts |-> 0, terms |-> 0, added |-> FALSE, headers |-> FALSE,
   complete |-> FALSE]

\* FetchQueue.exists
exists(si, url) == url \in si

\* FetchQueue.add with force = false: the new queue, or the old one on
\* DUPLICATE.
addToQueue(q, url) ==
  Append(q, [url |-> url, id |-> Len(q), status |-> "queued",
             fetched |-> FALSE])

\* add without its test of the scan index.
addUnchecked(q, si, url) ==
  [queue |-> addToQueue(q, url), scanIndex |-> si \cup {url}, error |-> ""]

add(q, si, url) ==
  IF exists(si, url)
    THEN [queue |-> q, scanIndex |-> si, error |-> "DUPLICATE"]
    ELSE [queue |-> addToQueue(q, url), scanIndex |-> si \cup {url},
          error |-> ""]

\* deepAssign of an update {fetched?, status?} onto an item.
deepAssign(item, u) ==
  [item EXCEPT !.fetched = IF u.fetched THEN TRUE ELSE @,
               !.status = IF u.status # "" THEN u.status ELSE @]

\* FetchQueue.update: the first item whose id matches gets the updates.
update(q, id, u) ==
  LET hits == {i \in 1..Len(q) : q[i].id = id}
  IN IF hits = {} THEN q
     ELSE LET i == CHOOSE j \in hits : \A k \in hits : j <= k
          IN [q EXCEPT ![i] = deepAssign(q[i], u)]

\* FetchQueue.oldestUnfetchedItem: the index (from 1) of the first queued
\* item at or after the cursor, 0 when there is none.
oldestUnfetchedItem(q, cursor) ==
  LET hits == {i \in (cursor + 1)..Len(q) : q[i].status = "queued"}
  IN IF hits = {} THEN 0
     ELSE CHOOSE j \in hits : \A k \in hits : j <= k

\* FetchQueue.countItems({fetched: true})
countItems(q) == Cardinality({i \in 1..Len(q) : q[i].fetched})

\* FetchQueue.getLength
getLength(q) == Len(q)

\* The event history grows with the queue: an item that start() adds gets
\* no event of its own.
HistFor(q, h) ==
  [i \in 1..Len(q) |-> IF i <= Len(h) THEN h[i] ELSE NoHist]

\* queueURL emits queueadd for the item it adds.
NoteQueueadd(q, h) ==
  [i \in 1..Len(q) |->
     IF i <= Len(h) THEN h[i] ELSE [NoHist EXCEPT !.added = TRUE]]

\* ---------------------------------------------------------------- Crawler
\* Crawler.urlIsAllowed: the first robots.txt with an answer decides; a
\* robots.txt answers only for URLs of its own origin.
urlIsAllowed(rt, url) ==
  ~(OriginOf(url) \in rt /\ url \in DisallowedUrls)

\* Host names as sequences of characters, "www" standing for its three
\* letters; all are in lower case.  The host of a URL goes with its origin:
\* the crawler's own host, the same with www., a subdomain, a host that
\* only ends with the crawler's host, and another host.
HostA == <<"a", ".", "c">>
HostWWW == <<"www", ".", "a", ".", "c">>
HostSub == <<"b", ".", "a", ".", "c">>
HostTail == <<"x", "a", ".", "c">>
HostOther == <<"d", ".", "c">>

HostOf(u) ==
  CASE OriginOf(u) = 1 -> HostA
    [] OriginOf(u) = 2 -> HostWWW
    [] OriginOf(u) = 3 -> HostSub
    [] OriginOf(u) = 4 -> HostTail
    [] OTHER -> HostOther

\* Crawler.host: the host of the initial URL.
CrawlerHost == HostOf(InitialURL)

\* No file written, no call made, no download condition, an empty jar; the
\* host of the initial URL.
ApiInit ==
  /\ file = [written |-> FALSE, items |-> <<>>]
  /\ lastCall = NoCall
  /\ downloadConditions = <<>>
  /\ cookies = <<>>
  /\ host = CrawlerHost
  /\ allowInitialDomainChange = FALSE
  /\ seedChain = {}

\* host.replace(/^www\./i, "")
stripWWW(h) ==
  IF Len(h) >= 2 /\ h[1] = "www" /\ h[2] = "."
    THEN SubSeq(h, 3, Len(h)) ELSE h

\* host.replace(/^www./ig, ""): the dot of the pattern matches any character.
stripWWWAny(h) ==
  IF Len(h) >= 2 /\ h[1] = "www" THEN SubSeq(h, 3, Len(h)) ELSE h

\* isSubdomainOf of domainValid: with both names reversed, the first
\* host.length characters of the subdomain equal the host.
isSubdomainOf(subdomain, crawlerHost, ignoreWWWDomain) ==
  LET sub == IF ignoreWWWDomain THEN stripWWWAny(subdomain) ELSE subdomain
      h == IF ignoreWWWDomain THEN stripWWWAny(crawlerHost)
           ELSE crawlerHost
  IN /\ Len(sub) >= Len(h)
     /\ SubSeq(sub, Len(sub) - Len(h) + 1, Len(sub)) = h

\* domainInWhitelist of domainValid
domainInWhitelist(h, cfg) ==
  \E entry \in cfg.domainWhitelist :
    \/ h = entry
    \/ cfg.ignoreWWWDomain /\ h = stripWWW(entry)

\* Crawler.domainValid
domainValid(host0, cfg) ==
  LET h == IF cfg.ignoreWWWDomain THEN stripWWW(host0) ELSE host0
  IN \/ ~cfg.filterByDomain
     \/ h = host
     \/ cfg.ignoreWWWDomain /\ stripWWW(host) = stripWWW(h)
     \/ domainInWhitelist(h, cfg)
     \/ cfg.scanSubdomains /\ isSubdomainOf(h, host, cfg.ignoreWWWDomain)

\* The defaults of the four fields that domainValid reads.
DefaultDomainConfig ==
  [filterByDomain |-> TRUE, ignoreWWWDomain |-> TRUE,
   scanSubdomains |-> FALSE, domainWhitelist |-> {}]

\* Array.prototype.splice(indexOf(r), 1): indexOf gives -1 for a missing
\* element, and splice(-1, 1) removes the last element.
RemoveAt(s, i) == [j \in 1..(Len(s) - 1) |-> IF j < i THEN s[j] ELSE s[j + 1]]

IndexOf(s, r) ==
  IF \E i \in 1..Len(s) : s[i] = r
    THEN CHOOSE i \in 1..Len(s) : s[i] = r /\ \A k \in 1..(i - 1) : s[k] # r
    ELSE 0

splice(s, r) ==
  IF IndexOf(s, r) > 0 THEN RemoveAt(s, IndexOf(s, r))
  ELSE IF Len(s) > 0 THEN RemoveAt(s, Len(s))
  ELSE s

\* The guarded removal of the "abort" listener.
spliceIfPresent(s, r) ==
  IF IndexOf(s, r) > 0 THEN RemoveAt(s, IndexOf(s, r)) ELSE s

\* A queue.update call that has not completed: the item id, the updates
\* (fetched: true when set, a status when not ""), and what its callback
\* needs: which callback it is, the request and the kind of response.
Upd(id, fetched, status, cont, req) ==
  [id |-> id, fetched |-> fetched, status |-> status, cont |-> cont,
   req |-> req, kind |-> ""]

UpdK(id, fetched, status, cont, req, kind) ==
  [id |-> id, fetched |-> fetched, status |-> status, cont |-> cont,
   req |-> req, kind |-> kind]

\* Crawler.queueURL for a URL that parses and whose domain is valid, with no
\* fetch conditions registered: robots rules, then queue.add.
queueURL(q, si, rt, url) ==
  IF ~urlIsAllowed(rt, url)
    THEN [queue |-> q, scanIndex |-> si, error |-> "fetchdisallowed"]
    ELSE add(q, si, url)

\* queueURL for each URL of a list, in order.
RECURSIVE queueAll(_, _, _, _)
queueAll(q, si, rt, urls) ==
  IF urls = <<>> THEN [queue |-> q, scanIndex |-> si, error |-> ""]
  ELSE LET r == queueURL(q, si, rt, Head(urls))
       IN queueAll(r.queue, r.scanIndex, rt, Tail(urls))

RECURSIVE SetToSeq(_)
SetToSeq(S) ==
  IF S = {} THEN <<>>
  ELSE LET m == CHOOSE x \in S : \A y \in S : x <= y
       IN <<m>> \o SetToSeq(S \ {m})

\* ----------------------------------------------------------- user calls
\* start() with its test of running left out.
alreadyRunningNever == FALSE

\* The test at the top of Crawler.start.
alreadyRunning == running

\* Crawler.start: a call made while the crawler runs returns at once;
\* otherwise the seed is added, the timer setup is deferred to
\* process.nextTick and crawlstart is emitted.
start ==
  IF alreadyRunning
    THEN /\ userCalls < MaxUserCalls
         /\ userCalls' = userCalls + 1
         /\ calls' = Append(calls, "ignored")
         /\ UNCHANGED <<queueVars, timerVars, fetchingQueueItem, robotsVars,
                        openRequests, requests, holdVars, pendPick,
                        pendUpdate, checkVars, configVars, hist, completes>>
    ELSE /\ timersMade + pendingSetup < MaxStarts
         /\ running' = TRUE
         /\ LET r == add(queue, scanIndex, InitialURL)
            IN /\ queue' = r.queue
               /\ scanIndex' = r.scanIndex
               /\ hist' = HistFor(r.queue, hist)
         /\ pendingSetup' = pendingSetup + 1
         /\ completes' = 0
         /\ calls' = Append(calls, "start")
         /\ UNCHANGED <<oldestUnfetchedIndex, crawlIntervalID, timers,
                        timersMade, fetchingQueueItem, robotsVars,
                        openRequests, requests, holdVars, pendPick,
                        pendUpdate, checkVars, configVars, userCalls>>

\* ClientRequest.abort: a second abort of the same request does nothing.
abort(req) ==
  IF req.aborted THEN req
  ELSE [req EXCEPT !.aborted = TRUE, !.abortEvent = TRUE, !.phase = "closed",
                   !.kind = ""]

\* IncomingMessage.destroy, or the end of the socket
destroy(req) ==
  [req EXCEPT !.phase = "closed", !.kind = ""]

\* clearInterval(crawlIntervalID), done only when the id is set.
clearInterval(ts, id) == IF id # 0 THEN ts \ {id} ELSE ts

\* request.abort() for each request of _openRequests.
abortAll(reqs, open) ==
  [r \in 1..Len(reqs) |->
     IF IndexOf(open, r) > 0 THEN abort(reqs[r]) ELSE reqs[r]]

\* Crawler.stop
stop(abortRequestsInFlight) ==
  /\ timers' = clearInterval(timers, crawlIntervalID)
  /\ running' = FALSE
  /\ requests' = IF abortRequestsInFlight
                   THEN abortAll(requests, openRequests) ELSE requests

\* A stop call made by the user.
userStop(abortRequestsInFlight) ==
  /\ userCalls < MaxUserCalls
  /\ userCalls' = userCalls + 1
  /\ calls' = Append(calls, IF abortRequestsInFlight THEN "abort" ELSE "stop")
  /\ stop(abortRequestsInFlight)
  /\ UNCHANGED <<queueVars, crawlIntervalID, timersMade, pendingSetup,
                 fetchingQueueItem, robotsVars, openRequests, holdVars,
                 pendPick, pendUpdate, checkVars, configVars, hist,
                 completes>>

\* A queueURL call made by the user.
userQueueURL(url) ==
  /\ userCalls < MaxUserCalls
  /\ userCalls' = userCalls + 1
  /\ LET r == queueURL(queue, scanIndex, robotsTxts, url)
     IN /\ queue' = r.queue
        /\ scanIndex' = r.scanIndex
        /\ hist' = NoteQueueadd(r.queue, hist)
  /\ UNCHANGED <<oldestUnfetchedIndex, timerVars, fetchingQueueItem,
                 robotsVars, openRequests, requests, holdVars, pendPick,
                 pendUpdate, checkVars, configVars, calls, completes>>

\* Crawler.wait
wait ==
  /\ userCalls < MaxUserCalls
  /\ userCalls' = userCalls + 1
  /\ holds' = Append(holds, "open")
  /\ openListeners' = openListeners + 1
  /\ UNCHANGED <<queueVars, timerVars, fetchingQueueItem, robotsVars,
                 openRequests, requests, pendPick, pendUpdate, checkVars,
                 configVars, calls, hist, completes>>

\* The closure returned by wait() without its test of cleared.
releaseUntested(h) ==
  /\ holds' = [holds EXCEPT ![h] = "cleared"]
  /\ openListeners' = openListeners - 1
  /\ UNCHANGED <<queueVars, timerVars, fetchingQueueItem, robotsVars,
                 openRequests, requests, pendPick, pendUpdate, checkVars,
                 configVars, userVars, hist, completes>>

\* The closure returned by wait(), called any number of times: it returns
\* at once on a hold that is cleared.
release(h) ==
  /\ IF holds[h] = "open"
       THEN /\ holds' = [holds EXCEPT ![h] = "cleared"]
            /\ openListeners' = openListeners - 1
       ELSE UNCHANGED <<holds, openListeners>>
  /\ UNCHANGED <<queueVars, timerVars, fetchingQueueItem, robotsVars,
                 openRequests, requests, pendPick, pendUpdate, checkVars,
                 configVars, userVars, hist, completes>>

\* The listenerTTL timer of a hold fires.
expire(h) ==
  /\ pendingSetup = 0
  /\ holds[h] = "open"
  /\ holds' = [holds EXCEPT ![h] = "cleared"]
  /\ openListeners' = openListeners - 1
  /\ UNCHANGED <<queueVars, timerVars, fetchingQueueItem, robotsVars,
                 openRequests, requests, pendPick, pendUpdate, checkVars,
                 configVars, userVars, hist, completes>>

\* ------------------------------------------------------- the control loop
\* The guard without its test of _openRequests.length.
crawlGuardNoCap == ~fetchingRobotsTxt /\ ~fetchingQueueItem

\* The guard without its test of fetchingQueueItem.
crawlGuardNoFlag == Len(openRequests) < MaxConcurrency /\ ~fetchingRobotsTxt

\* The guard without its test of fetchingRobotsTxt.
crawlGuardNoRobots ==
  Len(openRequests) < MaxConcurrency /\ ~fetchingQueueItem

\* The guard at the top of Crawler.crawl.
crawlGuard ==
  /\ Len(openRequests) < MaxConcurrency
  /\ ~fetchingRobotsTxt
  /\ ~fetchingQueueItem

\* Crawler.crawl, up to the call of queue.oldestUnfetchedItem.
crawl ==
  /\ crawlGuard
  /\ pendPick < MaxPicks
  /\ fetchingQueueItem' = TRUE
  /\ pendPick' = pendPick + 1

\* The process.nextTick callback of start(): setInterval, then crawl().
timerSetup ==
  /\ pendingSetup > 0
  /\ pendingSetup' = pendingSetup - 1
  /\ timersMade' = timersMade + 1
  /\ crawlIntervalID' = timersMade + 1
  /\ timers' = timers \cup {timersMade + 1}
  /\ \/ crawl
     \/ /\ ~(crawlGuard /\ pendPick < MaxPicks)
        /\ UNCHANGED <<fetchingQueueItem, pendPick>>
  /\ UNCHANGED <<queueVars, running, robotsVars, openRequests, requests,
                 holdVars, pendUpdate, checkVars, configVars, userVars,
                 hist, completes>>

\* An interval timer fires and crawl() passes its guard.
tick ==
  /\ pendingSetup = 0
  /\ timers # {}
  /\ crawl
  /\ UNCHANGED <<queueVars, timerVars, robotsVars, openRequests, requests,
                 holdVars, pendUpdate, checkVars, configVars, userVars,
                 hist, completes>>

\* Crawler.fetchQueueItem, up to the call of queue.update.
fetchQueueItem(id) ==
  /\ fetchingQueueItem' = TRUE
  /\ pendUpdate' = Append(pendUpdate, Upd(id, FALSE, "spooled", "spooled", 0))

\* The callback of oldestUnfetchedItem, called with a queue item whose
\* origin has no robots.txt yet: getRobotsTxt.
pickRobots ==
  /\ pendingSetup = 0
  /\ pendPick > 0
  /\ LET idx == oldestUnfetchedItem(queue, oldestUnfetchedIndex)
     IN /\ idx > 0
        /\ respectRobotsTxt
        /\ OriginOf(queue[idx].url) \notin touchedHosts
        /\ oldestUnfetchedIndex' = idx - 1
        /\ touchedHosts' = touchedHosts \cup {OriginOf(queue[idx].url)}
        /\ robotsFetch' = Append(robotsFetch, queue[idx].id)
  /\ pendPick' = pendPick - 1
  /\ fetchingQueueItem' = FALSE
  /\ fetchingRobotsTxt' = TRUE
  /\ UNCHANGED <<queue, scanIndex, timerVars, robotsTxts, openRequests,
                 requests, holdVars, pendUpdate, checkVars, configVars,
                 userVars, hist, completes>>

\* The callback of oldestUnfetchedItem, called with a queue item whose
\* origin is touched (or with respectRobotsTxt off): fetchQueueItem.
pickFetch ==
  /\ pendingSetup = 0
  /\ pendPick > 0
  /\ LET idx == oldestUnfetchedItem(queue, oldestUnfetchedIndex)
     IN /\ idx > 0
        /\ ~(respectRobotsTxt /\ OriginOf(queue[idx].url) \notin touchedHosts)
        /\ oldestUnfetchedIndex' = idx - 1
        /\ fetchQueueItem(queue[idx].id)
  /\ pendPick' = pendPick - 1
  /\ UNCHANGED <<queue, scanIndex, timerVars, robotsVars, openRequests,
                 requests, holdVars, checkVars, configVars, userVars,
                 hist, completes>>

\* The callback of oldestUnfetchedItem, called with null: the completion
\* check starts when no request is open and no hold is outstanding.
pickNone ==
  /\ pendingSetup = 0
  /\ pendPick > 0
  /\ oldestUnfetchedItem(queue, oldestUnfetchedIndex) = 0
  /\ pendPick' = pendPick - 1
  /\ fetchingQueueItem' = FALSE
  /\ IF Len(openRequests) = 0 /\ openListeners = 0
       THEN /\ pendCount + Len(pendLength) < MaxChecks
            /\ pendCount' = pendCount + 1
       ELSE pendCount' = pendCount
  /\ UNCHANGED <<queueVars, timerVars, robotsVars, openRequests, requests,
                 holdVars, pendUpdate, pendLength, configVars, userVars,
                 hist, completes>>

\* The callback of countItems({fetched: true}): getLength is called.
countDone ==
  /\ pendingSetup = 0
  /\ pendCount > 0
  /\ pendCount' = pendCount - 1
  /\ pendLength' = Append(pendLength, countItems(queue))
  /\ UNCHANGED <<queueVars, timerVars, fetchingQueueItem, robotsVars,
                 openRequests, requests, holdVars, pendPick, pendUpdate,
                 configVars, userVars, hist, completes>>

\* The callback of getLength: complete is emitted and stop() called when
\* the count of fetched items equals the length.
lengthDone ==
  /\ pendingSetup = 0
  /\ pendLength # <<>>
  /\ pendLength' = Tail(pendLength)
  /\ IF Head(pendLength) = getLength(queue)
       THEN /\ completes' = Inc(completes)
            /\ stop(FALSE)
       ELSE UNCHANGED <<completes, timers, running, requests>>
  /\ UNCHANGED <<queueVars, crawlIntervalID, timersMade, pendingSetup,
                 fetchingQueueItem, robotsVars, openRequests, holdVars,
                 pendPick, pendUpdate, pendCount, configVars, userVars,
                 hist>>

\* The callback of getRobotsTxt: with the rules registered (ok) or with an
\* error; then the item is fetched, or marked disallowed.
robotsDone(ok) ==
  /\ pendingSetup = 0
  /\ robotsFetch # <<>>
  /\ LET id == Head(robotsFetch)
         url == queue[id + 1].url
         rt == IF ok THEN robotsTxts \cup {OriginOf(url)} ELSE robotsTxts
     IN /\ robotsTxts' = rt
        /\ IF urlIsAllowed(rt, url)
             THEN fetchQueueItem(id)
             ELSE /\ pendUpdate' = Append(pendUpdate,
                       Upd(id, TRUE, "disallowed", "disallowed", 0))
                  /\ UNCHANGED fetchingQueueItem
  /\ robotsFetch' = Tail(robotsFetch)
  /\ fetchingRobotsTxt' = FALSE
  /\ UNCHANGED <<queueVars, timerVars, touchedHosts, openRequests, requests,
                 holdVars, pendPick, checkVars, configVars, userVars,
                 hist, completes>>

\* ------------------------------------------------------ the request engine
NewRequest(id) ==
  [item |-> id, phase |-> "sent", kind |-> "", aborted |-> FALSE,
   abortEvent |-> FALSE]

Item(id) == queue[id + 1]

NoteStart(h, id) == [h EXCEPT ![id + 1].starts = Inc(@)]
NoteTerminal(h, id) == [h EXCEPT ![id + 1].terms = Inc(@)]
NoteHeaders(h, id) == [h EXCEPT ![id + 1].headers = TRUE]
NoteComplete(h, id) ==
  [h EXCEPT ![id + 1].terms = Inc(@), ![id + 1].complete = TRUE]

\* The callback of the queue.update of fetchQueueItem: the request is made,
\* tracked in _openRequests, and fetchstart is emitted.
spooled ==
  /\ pendingSetup = 0
  /\ pendUpdate # <<>>
  /\ Head(pendUpdate).cont = "spooled"
  /\ Len(requests) <= NUrls          \* at most NUrls + 1 requests are made
  /\ LET op == Head(pendUpdate)
     IN /\ queue' = update(queue, op.id, op)
        /\ requests' = Append(requests, NewRequest(op.id))
        /\ openRequests' = Append(openRequests, Len(requests) + 1)
        /\ hist' = NoteStart(hist, op.id)
  /\ pendUpdate' = Tail(pendUpdate)
  /\ fetchingQueueItem' = FALSE
  /\ UNCHANGED <<oldestUnfetchedIndex, scanIndex, timerVars, robotsVars,
                 holdVars, pendPick, checkVars, configVars, userVars,
                 completes>>

\* The callback of the queue.update of crawl() for a disallowed item.
disallowed ==
  /\ pendingSetup = 0
  /\ pendUpdate # <<>>
  /\ Head(pendUpdate).cont = "disallowed"
  /\ LET op == Head(pendUpdate)
     IN /\ queue' = update(queue, op.id, op)
        /\ hist' = NoteTerminal(hist, op.id)
  /\ pendUpdate' = Tail(pendUpdate)
  /\ UNCHANGED <<oldestUnfetchedIndex, scanIndex, timerVars,
                 fetchingQueueItem, robotsVars, openRequests, requests,
                 holdVars, pendPick, checkVars, configVars, userVars,
                 completes>>

\* The server answers request r: handleResponse, up to its queue.update.
response(r, kind) ==
  /\ pendingSetup = 0
  /\ requests[r].phase = "sent"
  /\ requests' = [requests EXCEPT ![r].phase = "response"]
  /\ pendUpdate' = Append(pendUpdate,
       UpdK(requests[r].item, FALSE, "", "response", r, kind))
  /\ UNCHANGED <<queueVars, timerVars, fetchingQueueItem, robotsVars,
                 openRequests, holdVars, pendPick, checkVars, configVars,
                 userVars, hist, completes>>

\* The phases of a request in which its socket is open and idle: waiting for
\* the response ("sent"), for body chunks ("body"), or holding a response
\* that nothing reads ("stalled").
IdlePhases == {"sent", "body", "stalled"}

\* The response of request r is left unread: neither consumed nor destroyed.
stall(req) == IF req.phase = "response" THEN [req EXCEPT !.phase = "stalled"]
              ELSE req

\* The timeout listener of fetchQueueItem (it is registered with once).
timeout(r) ==
  /\ pendingSetup = 0
  /\ requests[r].phase \in IdlePhases
  /\ requests' = [requests EXCEPT ![r].phase = "timedout"]
  /\ IF Item(requests[r].item).fetched
       THEN UNCHANGED <<openRequests, pendUpdate>>
       ELSE /\ openRequests' = IF running THEN splice(openRequests, r)
                               ELSE openRequests
            /\ pendUpdate' = Append(pendUpdate,
                 Upd(requests[r].item, TRUE, "timeout", "timeout", r))
  /\ UNCHANGED <<queueVars, timerVars, fetchingQueueItem, robotsVars,
                 holdVars, pendPick, checkVars, configVars, userVars,
                 hist, completes>>

\* The callback of the queue.update of the timeout listener.
timeoutUpdated ==
  /\ pendingSetup = 0
  /\ pendUpdate # <<>>
  /\ Head(pendUpdate).cont = "timeout"
  /\ LET op == Head(pendUpdate)
     IN /\ queue' = update(queue, op.id, op)
        /\ hist' = NoteTerminal(hist, op.id)
        /\ requests' = [requests EXCEPT ![op.req] = abort(@)]
  /\ pendUpdate' = Tail(pendUpdate)
  /\ UNCHANGED <<oldestUnfetchedIndex, scanIndex, timerVars,
                 fetchingQueueItem, robotsVars, openRequests, holdVars,
                 pendPick, checkVars, configVars, userVars, completes>>

\* The error listener of fetchQueueItem, for a request that is not aborted.
socketError(r) ==
  /\ pendingSetup = 0
  /\ requests[r].phase \in IdlePhases
  /\ ~requests[r].aborted
  /\ requests' = [requests EXCEPT ![r] = destroy(@)]
  /\ openRequests' =
       IF running /\ ~Item(requests[r].item).fetched
         THEN splice(openRequests, r) ELSE openRequests
  /\ pendUpdate' = Append(pendUpdate,
                          Upd(requests[r].item, TRUE, "failed", "error", r))
  /\ UNCHANGED <<queueVars, timerVars, fetchingQueueItem, robotsVars,
                 holdVars, pendPick, checkVars, configVars, userVars,
                 hist, completes>>

\* The callback of the queue.update of the error listener.
errorUpdated ==
  /\ pendingSetup = 0
  /\ pendUpdate # <<>>
  /\ Head(pendUpdate).cont = "error"
  /\ LET op == Head(pendUpdate)
     IN /\ queue' = update(queue, op.id, op)
        /\ hist' = NoteTerminal(hist, op.id)
  /\ pendUpdate' = Tail(pendUpdate)
  /\ UNCHANGED <<oldestUnfetchedIndex, scanIndex, timerVars,
                 fetchingQueueItem, robotsVars, openRequests, requests,
                 holdVars, pendPick, checkVars, configVars, userVars,
                 completes>>

\* The abort listener of fetchQueueItem.
abortEvent(r) ==
  /\ pendingSetup = 0
  /\ requests[r].abortEvent
  /\ requests' = [requests EXCEPT ![r].abortEvent = FALSE]
  /\ openRequests' = spliceIfPresent(openRequests, r)
  /\ UNCHANGED <<queueVars, timerVars, fetchingQueueItem, robotsVars,
                 holdVars, pendPick, pendUpdate, checkVars, configVars,
                 userVars, hist, completes>>

\* handleResponse asking the download conditions before it looks at the
\* status and the content length.
responseUpdateConditionsFirst(id, r, kind, outcome) ==
  CASE outcome = "error" -> <<>>
    [] outcome = "prevent" ->
         <<Upd(id, TRUE, "downloadprevented", "downloadprevented", r)>>
    [] kind = "oversize" -> <<Upd(id, TRUE, "", "oversize", r)>>
    [] kind \in {"ok", "binary"} ->
         <<UpdK(id, FALSE, "headers", "headers", r, kind)>>
    [] kind = "notmodified" -> <<Upd(id, TRUE, "", "notmodified", r)>>
    [] kind \in {"redirect", "badredirect"} ->
         <<UpdK(id, TRUE, "redirected", "redirected", r, kind)>>
    [] kind = "notfound" -> <<Upd(id, TRUE, "notfound", "notfound", r)>>
    [] OTHER -> <<Upd(id, TRUE, "failed", "failed", r)>>

\* The branch handleResponse takes on a response: the update it issues.
\* outcome is what the download conditions yield when they are asked.
responseUpdate(id, r, kind, outcome) ==
  CASE kind = "oversize" -> <<Upd(id, TRUE, "", "oversize", r)>>
    [] kind \in {"ok", "binary"} /\ outcome = "error" -> <<>>
    [] kind \in {"ok", "binary"} /\ outcome = "prevent" ->
         <<Upd(id, TRUE, "downloadprevented", "downloadprevented", r)>>
    [] kind \in {"ok", "binary"} /\ outcome = "pass" ->
         <<UpdK(id, FALSE, "headers", "headers", r, kind)>>
    [] kind = "notmodified" -> <<Upd(id, TRUE, "", "notmodified", r)>>
    [] kind \in {"redirect", "badredirect"} ->
         <<UpdK(id, TRUE, "redirected", "redirected", r, kind)>>
    [] kind = "notfound" -> <<Upd(id, TRUE, "notfound", "notfound", r)>>
    [] OTHER -> <<Upd(id, TRUE, "failed", "failed", r)>>

\* The callback of the first queue.update of handleResponse: fetchheaders is
\* emitted and the response is dispatched on its status.  When a download
\* condition fails, downloadconditionerror is emitted and nothing else is
\* done with the response.
handleResponse(outcome) ==
  /\ pendingSetup = 0
  /\ pendUpdate # <<>>
  /\ Head(pendUpdate).cont = "response"
  /\ LET op == Head(pendUpdate)
         kind == op.kind
     IN /\ queue' = update(queue, op.id, op)
        /\ pendUpdate' =
             Tail(pendUpdate) \o responseUpdate(op.id, op.req, kind, outcome)
        /\ requests' = IF responseUpdate(op.id, op.req, kind, outcome) = <<>>
                         THEN [requests EXCEPT ![op.req] = stall(@)]
                         ELSE requests
        /\ hist' = NoteHeaders(hist, op.id)
  /\ UNCHANGED <<oldestUnfetchedIndex, scanIndex, timerVars,
                 fetchingQueueItem, robotsVars, openRequests, holdVars,
                 pendPick, checkVars, configVars, userVars, completes>>

\* The terminal callbacks of handleResponse that emit one event, destroy
\* the response and remove the request from _openRequests: oversize
\* (fetchdataerror), downloadprevented, notmodified, notfound (fetch404 or
\* fetch410) and failed (fetcherror).
responseTerminal ==
  /\ pendingSetup = 0
  /\ pendUpdate # <<>>
  /\ Head(pendUpdate).cont \in
       {"oversize", "downloadprevented", "notmodified", "notfound", "failed"}
  /\ LET op == Head(pendUpdate)
     IN /\ queue' = update(queue, op.id, op)
        /\ hist' = NoteTerminal(hist, op.id)
        /\ requests' = [requests EXCEPT ![op.req] = destroy(@)]
        /\ openRequests' = splice(openRequests, op.req)
  /\ pendUpdate' = Tail(pendUpdate)
  /\ UNCHANGED <<oldestUnfetchedIndex, scanIndex, timerVars,
                 fetchingQueueItem, robotsVars, holdVars, pendPick,
                 checkVars, configVars, userVars, completes>>

\* The callback of the update to status headers: the body is streamed, or,
\* for an unsupported mimetype with downloadUnsupported off, the item is
\* marked fetched.  downloadUnsupported is the value of that public field
\* when the callback runs.
headersUpdated(downloadUnsupported) ==
  /\ pendingSetup = 0
  /\ pendUpdate # <<>>
  /\ Head(pendUpdate).cont = "headers"
  /\ LET op == Head(pendUpdate)
         supported == op.kind = "ok"
     IN /\ queue' = update(queue, op.id, op)
        /\ IF downloadUnsupported \/ supported
             THEN /\ requests' =
                       [requests EXCEPT ![op.req] =
                          IF @.phase = "response"
                            THEN [@ EXCEPT !.phase = "body", !.kind = op.kind]
                            ELSE @]
                  /\ pendUpdate' = Tail(pendUpdate)
             ELSE /\ pendUpdate' = Append(Tail(pendUpdate),
                       Upd(op.id, TRUE, "", "unsupported", op.req))
                  /\ UNCHANGED requests
  /\ UNCHANGED <<oldestUnfetchedIndex, scanIndex, timerVars,
                 fetchingQueueItem, robotsVars, openRequests, holdVars,
                 pendPick, checkVars, configVars, userVars, hist,
                 completes>>

\* The callback of the update that marks an unsupported resource fetched:
\* the request is removed and the response destroyed; no event.
unsupportedUpdated ==
  /\ pendingSetup = 0
  /\ pendUpdate # <<>>
  /\ Head(pendUpdate).cont = "unsupported"
  /\ LET op == Head(pendUpdate)
     IN /\ queue' = update(queue, op.id, op)
        /\ requests' = [requests EXCEPT ![op.req] = destroy(@)]
        /\ openRequests' = splice(openRequests, op.req)
  /\ pendUpdate' = Tail(pendUpdate)
  /\ UNCHANGED <<oldestUnfetchedIndex, scanIndex, timerVars,
                 fetchingQueueItem, robotsVars, holdVars, pendPick,
                 checkVars, configVars, userVars, hist, completes>>

\* The callback of the update to status redirected: fetchredirect is
\* emitted; when processURL rejects the Location the callback returns,
\* otherwise the target is queued and the request removed.
redirectUpdated ==
  /\ pendingSetup = 0
  /\ pendUpdate # <<>>
  /\ Head(pendUpdate).cont = "redirected"
  /\ LET op == Head(pendUpdate)
         q1 == update(queue, op.id, op)
         r == queueURL(q1, scanIndex, robotsTxts,
                       RedirectTarget(Item(op.id).url))
     IN IF op.kind = "badredirect"
          THEN /\ queue' = q1
               /\ hist' = NoteTerminal(hist, op.id)
               /\ requests' = [requests EXCEPT ![op.req] = stall(@)]
               /\ UNCHANGED <<scanIndex, openRequests>>
          ELSE /\ queue' = r.queue
               /\ scanIndex' = r.scanIndex
               /\ hist' = NoteQueueadd(r.queue, NoteTerminal(hist, op.id))
               /\ requests' = [requests EXCEPT ![op.req] = destroy(@)]
               /\ openRequests' = splice(openRequests, op.req)
  /\ pendUpdate' = Tail(pendUpdate)
  /\ UNCHANGED <<oldestUnfetchedIndex, timerVars, fetchingQueueItem,
                 robotsVars, holdVars, pendPick, checkVars, configVars,
                 userVars, completes>>

\* The server closes the connection of a response that nothing reads: the
\* request emits close, for which the crawler has no listener.
socketClose(r) ==
  /\ pendingSetup = 0
  /\ requests[r].phase = "stalled"
  /\ requests' = [requests EXCEPT ![r] = destroy(@)]
  /\ UNCHANGED <<queueVars, timerVars, fetchingQueueItem, robotsVars,
                 openRequests, holdVars, pendPick, pendUpdate, checkVars,
                 configVars, userVars, hist, completes>>

\* The end of the response body: processReceivedData.
bodyEnd(r) ==
  /\ pendingSetup = 0
  /\ requests[r].phase = "body"
  /\ requests' = [requests EXCEPT ![r] = destroy(@)]
  /\ pendUpdate' =
       IF Item(requests[r].item).fetched THEN pendUpdate
       ELSE Append(pendUpdate, UpdK(requests[r].item, FALSE, "", "received",
                                    r, requests[r].kind))
  /\ UNCHANGED <<queueVars, timerVars, fetchingQueueItem, robotsVars,
                 openRequests, holdVars, pendPick, checkVars, configVars,
                 userVars, hist, completes>>

\* receiveData with a chunk that takes the body over maxResourceSize: the
\* response is destroyed and fetchdataerror emitted.
bodyTooBig(r) ==
  /\ pendingSetup = 0
  /\ requests[r].phase = "body"
  /\ requests' = [requests EXCEPT ![r] = destroy(@)]
  /\ hist' = NoteTerminal(hist, requests[r].item)
  /\ UNCHANGED <<queueVars, timerVars, fetchingQueueItem, robotsVars,
                 openRequests, holdVars, pendPick, pendUpdate, checkVars,
                 configVars, userVars, completes>>

\* The callback of the update of processReceivedData: emitFetchComplete.
receivedUpdated ==
  /\ pendingSetup = 0
  /\ pendUpdate # <<>>
  /\ Head(pendUpdate).cont = "received"
  /\ LET op == Head(pendUpdate)
     IN /\ queue' = update(queue, op.id, op)
        /\ pendUpdate' = Append(Tail(pendUpdate),
             UpdK(op.id, TRUE, "downloaded", "downloaded", op.req, op.kind))
  /\ UNCHANGED <<oldestUnfetchedIndex, scanIndex, timerVars,
                 fetchingQueueItem, robotsVars, openRequests, requests,
                 holdVars, pendPick, checkVars, configVars, userVars,
                 hist, completes>>

\* The callback of the update of emitFetchComplete: the request is removed,
\* fetchcomplete emitted, and the links of a supported body are queued.
downloadedUpdated ==
  /\ pendingSetup = 0
  /\ pendUpdate # <<>>
  /\ Head(pendUpdate).cont = "downloaded"
  /\ LET op == Head(pendUpdate)
         q1 == update(queue, op.id, op)
         links == IF op.kind = "ok"
                    THEN SetToSeq(LinksOf(Item(op.id).url)) ELSE <<>>
         r == queueAll(q1, scanIndex, robotsTxts, links)
     IN /\ queue' = r.queue
        /\ scanIndex' = r.scanIndex
        /\ hist' = NoteQueueadd(r.queue, NoteComplete(hist, op.id))
        /\ openRequests' = splice(openRequests, op.req)
  /\ pendUpdate' = Tail(pendUpdate)
  /\ UNCHANGED <<oldestUnfetchedIndex, timerVars, fetchingQueueItem,
                 robotsVars, requests, holdVars, pendPick, checkVars,
                 configVars, userVars, completes>>

Init ==
  /\ queue = <<>>
  /\ oldestUnfetchedIndex = 0
  /\ scanIndex = {}
  /\ running = FALSE
  /\ crawlIntervalID = 0
  /\ timers = {}
  /\ timersMade = 0
  /\ pendingSetup = 0
  /\ fetchingRobotsTxt = FALSE
  /\ fetchingQueueItem = FALSE
  /\ touchedHosts = {}
  /\ robotsTxts = {}
  /\ robotsFetch = <<>>
  /\ openRequests = <<>>
  /\ requests = <<>>
  /\ openListeners = 0
  /\ holds = <<>>
  /\ pendPick = 0
  /\ pendUpdate = <<>>
  /\ pendCount = 0
  /\ pendLength = <<>>
  /\ respectRobotsTxt \in BOOLEAN
  /\ userCalls = 0
  /\ calls = <<>>
  /\ domainConfig = DefaultDomainConfig
  /\ fetchConditions = <<>>
  /\ admissions = <<>>
  /\ maxDepth = 0
  /\ depths = <<>>
  /\ isFirstRequest = TRUE
  /\ ApiInit
  /\ hist = <<>>
  /\ completes = 0

Next ==
  \/ start
  \/ \E a \in BOOLEAN : userStop(a)
  \/ \E u \in Urls : userQueueURL(u)
  \/ wait
  \/ \E h \in 1..Len(holds) : release(h)
  \/ \E h \in 1..Len(holds) : expire(h)
  \/ timerSetup
  \/ tick
  \/ pickRobots
  \/ pickFetch
  \/ pickNone
  \/ countDone
  \/ lengthDone
  \/ \E ok \in BOOLEAN : robotsDone(ok)
  \/ spooled
  \/ disallowed
  \/ \E r \in 1..Len(requests), k \in ResponseKinds : response(r, k)
  \/ \E r \in 1..Len(requests) : timeout(r)
  \/ timeoutUpdated
  \/ \E r \in 1..Len(requests) : socketError(r)
  \/ errorUpdated
  \/ \E r \in 1..Len(requests) : abortEvent(r)
  \/ \E o \in ConditionOutcomes : handleResponse(o)
  \/ responseTerminal
  \/ \E d \in BOOLEAN : headersUpdated(d)
  \/ unsupportedUpdated
  \/ redirectUpdated
  \/ \E r \in 1..Len(requests) : socketClose(r)
  \/ \E r \in 1..Len(requests) : bodyEnd(r)
  \/ \E r \in 1..Len(requests) : bodyTooBig(r)
  \/ receivedUpdated
  \/ downloadedUpdated

Spec == Init /\ [][Next]_vars

\* ----------------------------------------------------- a crawl left alone
\* The crawl as the event loop drives it once start() has been called: the
\* user never calls stop().
LiveNext ==
  \/ start
  \/ \E u \in Urls : userQueueURL(u)
  \/ wait
  \/ \E h \in 1..Len(holds) : release(h)
  \/ \E h \in 1..Len(holds) : expire(h)
  \/ timerSetup
  \/ tick
  \/ pickRobots
  \/ pickFetch
  \/ pickNone
  \/ countDone
  \/ lengthDone
  \/ \E ok \in BOOLEAN : robotsDone(ok)
  \/ spooled
  \/ disallowed
  \/ \E r \in 1..Len(requests), k \in ResponseKinds : response(r, k)
  \/ \E r \in 1..Len(requests) : timeout(r)
  \/ timeoutUpdated
  \/ \E r \in 1..Len(requests) : socketError(r)
  \/ errorUpdated
  \/ \E r \in 1..Len(requests) : abortEvent(r)
  \/ \E o \in ConditionOutcomes : handleResponse(o)
  \/ responseTerminal
  \/ \E d \in BOOLEAN : headersUpdated(d)
  \/ unsupportedUpdated
  \/ redirectUpdated
  \/ \E r \in 1..Len(requests) : socketClose(r)
  \/ \E r \in 1..Len(requests) : bodyEnd(r)
  \/ \E r \in 1..Len(requests) : bodyTooBig(r)
  \/ receivedUpdated
  \/ downloadedUpdated

\* The callback of the oldest pending oldestUnfetchedItem call.
PickDone == pickRobots \/ pickFetch \/ pickNone

\* The callback of the oldest pending queue.update call.
UpdateDone ==
  \/ spooled
  \/ disallowed
  \/ timeoutUpdated
  \/ errorUpdated
  \/ \E o \in ConditionOutcomes : handleResponse(o)
  \/ responseTerminal
  \/ \E d \in BOOLEAN : headersUpdated(d)
  \/ unsupportedUpdated
  \/ redirectUpdated
  \/ receivedUpdated
  \/ downloadedUpdated

\* What the socket of request r delivers next: the response, the end of the
\* body or a chunk that is too big, a timeout, an error, or the close of
\* the connection.
SocketEvent(r) ==
  \/ \E k \in ResponseKinds : response(r, k)
  \/ timeout(r)
  \/ socketError(r)
  \/ socketClose(r)
  \/ bodyEnd(r)
  \/ bodyTooBig(r)

\* The event loop runs every callback that is due: the nextTick callback of
\* start(), the interval timer, the callbacks of the queue, of getRobotsTxt
\* and of abort(), the listenerTTL timers, and each socket's next event.
Fairness ==
  /\ WF_vars(timerSetup)
  /\ WF_vars(tick)
  /\ WF_vars(PickDone)
  /\ WF_vars(countDone)
  /\ WF_vars(lengthDone)
  /\ WF_vars(\E ok \in BOOLEAN : robotsDone(ok))
  /\ WF_vars(UpdateDone)
  /\ WF_vars(\E h \in 1..Len(holds) : expire(h))
  /\ \A r \in 1..(NUrls + 1) :
       /\ WF_vars(r <= Len(requests) /\ abortEvent(r))
       /\ WF_vars(r <= Len(requests) /\ SocketEvent(r))

LiveSpec == Init /\ [][LiveNext]_vars /\ Fairness

\* --------------------------------------------- a crawl stopped and resumed
\* The crawl with every call the user can make, stop() included, and the
\* event loop running every callback that is due.
ResumeSpec == Init /\ [][Next]_vars /\ Fairness

\* ---------------------------------------------------------------- admission
\* Crawler.queueURL in full, on its own: processURL, domainValid,
\* urlIsAllowed, the fetch conditions under async.every, queue.add.  A
\* condition that takes a callback completes on a later turn, in any order.

\* What a fetch condition yields: a truthy value, a falsy value, or an
\* error (thrown by a synchronous condition, or passed to the callback).
Outcomes == {"true", "false", "error"}

\* A slot of _fetchConditions: undefined after removeFetchCondition, a
\* function of two parameters, or one that takes a callback.
Slots == {"removed", "sync", "async"}

\* The URLs queueURL is called with: 0 is a URL that processURL rejects;
\* the others are the URLs of the site and one URL of each further origin.
AdmitUrls == {0} \cup {u \in 1..(2 * NOrigins) : u <= NUrls \/ u % 2 = 1}

\* FetchQueue.add with its force flag: a URL that exists is added again
\* when forced, unless the queue item passed is itself in the queue.
\* add without its test for the queue item being in the queue already.
addForceNoIncludes(q, si, url, force, included) ==
  IF exists(si, url) /\ ~force
    THEN [queue |-> q, scanIndex |-> si, error |-> "DUPLICATE"]
    ELSE [queue |-> addToQueue(q, url), scanIndex |-> si \cup {url},
          error |-> ""]

addForce(q, si, url, force, included) ==
  IF ~exists(si, url) THEN add(q, si, url)
  ELSE IF force
    THEN IF included
           THEN [queue |-> q, scanIndex |-> si, error |-> "ERROR"]
           ELSE [queue |-> addToQueue(q, url), scanIndex |-> si \cup {url},
                 error |-> ""]
    ELSE add(q, si, url)

\* The queue.add callback of queueURL without its test for DUPLICATE.
addEventNoDuplicate(error) == IF error # "" THEN "queueerror" ELSE "queueadd"

\* The event that the queue.add callback of queueURL emits.
addEvent(error) ==
  IF error = "DUPLICATE" THEN "queueduplicate"
  ELSE IF error # "" THEN "queueerror"
  ELSE "queueadd"

\* async.every taking an error for a truthy result.
verdictIgnoringErrors(res) == IF res = "false" THEN "prevented" ELSE ""

\* async.every on the result of one condition: an error or a falsy value
\* decides the test at once.
verdictOf(res) ==
  CASE res = "error" -> "error"
    [] res = "false" -> "prevented"
    [] OTHER -> ""

\* The iteratee of async.every in queueURL: an undefined slot passes, a
\* synchronous condition yields its outcome in the same turn, a condition
\* with a callback is pending.
fetchConditionResult(slot, outcome) ==
  CASE slot = "removed" -> "true"
    [] slot = "sync" -> outcome
    [] OTHER -> "pending"

\* async.every on the results so far: the first deciding result in slot
\* order, or passed once every slot has completed.
everyVerdict(results) ==
  LET deciding == {k \in 1..Len(results) : verdictOf(results[k]) # ""}
      completed == {k \in 1..Len(results) : results[k] # "pending"}
  IN IF deciding # {}
       THEN verdictOf(results[CHOOSE k \in deciding :
                                 \A j \in deciding : k <= j])
     ELSE IF Cardinality(completed) = Len(results) THEN "passed"
     ELSE ""

\* A queueURL call: its URL, force flag and whether the queue item passed
\* is in the queue; the results of the conditions, the verdict of
\* async.every ("" while undecided), the events emitted and whether the
\* queue gained an item.
NewAdmission(u, force, included) ==
  [url |-> u, force |-> force, included |-> included, results |-> <<>>,
   verdict |-> "", events |-> <<>>, added |-> FALSE]

\* The final callback of async.every in queueURL.
settle(c, q, si) ==
  CASE c.verdict = "error" ->
         [admission |-> [c EXCEPT !.events = Append(@, "fetchconditionerror")],
          queue |-> q, scanIndex |-> si]
    [] c.verdict = "prevented" ->
         [admission |-> [c EXCEPT !.events = Append(@, "fetchprevented")],
          queue |-> q, scanIndex |-> si]
    [] c.verdict = "passed" ->
         LET r == addForce(q, si, c.url, c.force, c.included)
         IN [admission |-> [c EXCEPT !.events = Append(@, addEvent(r.error)),
                                     !.added = Len(r.queue) > Len(q)],
             queue |-> r.queue, scanIndex |-> r.scanIndex]
    [] OTHER -> [admission |-> c, queue |-> q, scanIndex |-> si]

\* Crawler.queueURL, up to its return: the synchronous conditions yield
\* outcomes[k].
callQueueURL(u, force, included, outcomes) ==
  /\ Len(admissions) < MaxAdmissions
  /\ included => force /\ \E i \in 1..Len(queue) : queue[i].url = u
  /\ \A k \in 1..Len(fetchConditions) :
       fetchConditions[k] # "sync" => outcomes[k] = "true"
  /\ LET c0 == NewAdmission(u, force, included)
         results == [k \in 1..Len(fetchConditions) |->
                       fetchConditionResult(fetchConditions[k], outcomes[k])]
         c1 == [c0 EXCEPT !.results = results,
                          !.verdict = everyVerdict(results)]
         r == settle(c1, queue, scanIndex)
     IN IF u = 0
          THEN /\ admissions' = Append(admissions, c0)
               /\ UNCHANGED <<queue, scanIndex, hist>>
        ELSE IF ~domainValid(HostOf(u), domainConfig)
          THEN /\ admissions' = Append(admissions,
                    [c0 EXCEPT !.events = <<"invaliddomain">>])
               /\ UNCHANGED <<queue, scanIndex, hist>>
        ELSE IF ~urlIsAllowed(robotsTxts, u)
          THEN /\ admissions' = Append(admissions,
                    [c0 EXCEPT !.events = <<"fetchdisallowed">>])
               /\ UNCHANGED <<queue, scanIndex, hist>>
        ELSE /\ admissions' = Append(admissions, r.admission)
             /\ queue' = r.queue
             /\ scanIndex' = r.scanIndex
             /\ hist' = NoteQueueadd(r.queue, hist)
  /\ UNCHANGED <<oldestUnfetchedIndex, timerVars, fetchingQueueItem,
                 robotsVars, openRequests, requests, holdVars, pendPick,
                 pendUpdate, checkVars, respectRobotsTxt, domainConfig,
                 fetchConditions, depthVars, userVars, hostVars, apiVars,
                 completes>>

\* The callback that queueURL passed to the condition of slot k is called
\* with result res, for the queueURL call c.
fetchConditionDone(c, k, res) ==
  /\ admissions[c].results[k] = "pending"
  /\ LET c1 == [admissions[c] EXCEPT !.results[k] = res]
         c2 == [c1 EXCEPT !.verdict = everyVerdict(c1.results)]
         r == IF admissions[c].verdict # ""
                THEN [admission |-> c1, queue |-> queue,
                      scanIndex |-> scanIndex]
                ELSE settle(c2, queue, scanIndex)
     IN /\ admissions' = [admissions EXCEPT ![c] = r.admission]
        /\ queue' = r.queue
        /\ scanIndex' = r.scanIndex
        /\ hist' = NoteQueueadd(r.queue, hist)
  /\ UNCHANGED <<oldestUnfetchedIndex, timerVars, fetchingQueueItem,
                 robotsVars, openRequests, requests, holdVars, pendPick,
                 pendUpdate, checkVars, respectRobotsTxt, domainConfig,
                 fetchConditions, depthVars, userVars, hostVars, apiVars,
                 completes>>

\* The crawler with its seed in the queue and no crawl under way; the
\* robots.txt of the first origin is registered or not, the domain
\* whitelist is empty or names the subdomain, and the fetch conditions are
\* as the user has set them.
AdmitInit ==
  /\ queue = addToQueue(<<>>, InitialURL)
  /\ oldestUnfetchedIndex = 0
  /\ scanIndex = {InitialURL}
  /\ running = FALSE
  /\ crawlIntervalID = 0
  /\ timers = {}
  /\ timersMade = 0
  /\ pendingSetup = 0
  /\ fetchingRobotsTxt = FALSE
  /\ fetchingQueueItem = FALSE
  /\ robotsTxts \in SUBSET {OriginOf(InitialURL)}
  /\ touchedHosts = robotsTxts
  /\ robotsFetch = <<>>
  /\ openRequests = <<>>
  /\ requests = <<>>
  /\ openListeners = 0
  /\ holds = <<>>
  /\ pendPick = 0
  /\ pendUpdate = <<>>
  /\ pendCount = 0
  /\ pendLength = <<>>
  /\ respectRobotsTxt = TRUE
  /\ userCalls = 0
  /\ calls = <<>>
  /\ domainConfig \in
       {DefaultDomainConfig,
        [DefaultDomainConfig EXCEPT !.domainWhitelist = {HostSub}]}
  /\ fetchConditions \in
       UNION {[1..n -> Slots] : n \in 0..MaxConditions}
  /\ admissions = <<>>
  /\ maxDepth = 0
  /\ depths = <<QUEUE_ITEM_INITIAL_DEPTH>>
  /\ isFirstRequest = TRUE
  /\ ApiInit
  /\ hist = <<NoHist>>
  /\ completes = 0

AdmitNext ==
  \/ \E u \in AdmitUrls, force \in BOOLEAN, included \in BOOLEAN,
        outcomes \in [1..Len(fetchConditions) -> Outcomes] :
       callQueueURL(u, force, included, outcomes)
  \/ \E c \in 1..Len(admissions), k \in 1..MaxConditions, res \in Outcomes :
       /\ k <= Len(admissions[c].results)
       /\ fetchConditionDone(c, k, res)

AdmitSpec == AdmitInit /\ [][AdmitNext]_vars

\* -------------------------------------------------------------------- depth
\* The depth of queue items, on its own: items are fetched one at a time in
\* queue order, and each step is the whole of a fetch (or of the robots.txt
\* fetch before it) as far as the queue, the depths and _isFirstRequest go.
\* A page may link to, a response redirect to, and a robots.txt name as
\* sitemap, any of the URLs 1..NDepthUrls.
DepthUrls == 1..NDepthUrls

\* Crawler.processURL: an item is one level below its referrer.
processURLDepth(referrerDepth) == referrerDepth + 1

\* The test of queueLinkedItems on the item whose links are queued.
depthAllows(max, depth) == max = 0 \/ depth + 1 <= max

\* queueURL for a queue item of the given depth: the queue, the scan index
\* and the depths after it.
queueAtDepth(q, si, ds, rt, url, depth) ==
  LET r == queueURL(q, si, rt, url)
  IN [queue |-> r.queue, scanIndex |-> r.scanIndex,
      depths |-> IF Len(r.queue) > Len(q) THEN Append(ds, depth) ELSE ds]

\* queueURL at one depth for each URL of a list, in order.
RECURSIVE queueAllAtDepth(_, _, _, _, _, _)
queueAllAtDepth(q, si, ds, rt, urls, depth) ==
  IF urls = <<>> THEN [queue |-> q, scanIndex |-> si, depths |-> ds]
  ELSE LET r == queueAtDepth(q, si, ds, rt, Head(urls), depth)
       IN queueAllAtDepth(r.queue, r.scanIndex, r.depths, rt, Tail(urls),
                          depth)

\* The item that crawl() fetches next, when its robots.txt is not due.
NextToFetch ==
  LET idx == oldestUnfetchedItem(queue, 0)
  IN IF idx > 0
        /\ ~(respectRobotsTxt /\ OriginOf(queue[idx].url) \notin touchedHosts)
       THEN idx ELSE 0

depthFrame ==
  UNCHANGED <<oldestUnfetchedIndex, timerVars, fetchingQueueItem,
              robotsFetch, fetchingRobotsTxt, openRequests, requests,
              holdVars, pendPick, pendUpdate, checkVars, respectRobotsTxt,
              admitVars, maxDepth, userVars, hostVars, apiVars, completes>>

\* crawl() fetches the robots.txt of the next item's origin: its sitemaps
\* are queued with the robots.txt as referrer, and the item is marked
\* disallowed when the rules say so.
robotsTxtFetched(sitemaps) ==
  /\ LET idx == oldestUnfetchedItem(queue, 0)
     IN /\ idx > 0
        /\ respectRobotsTxt
        /\ OriginOf(queue[idx].url) \notin touchedHosts
        /\ touchedHosts' = touchedHosts \cup {OriginOf(queue[idx].url)}
        /\ robotsTxts' = robotsTxts \cup {OriginOf(queue[idx].url)}
        /\ LET r == queueAllAtDepth(queue, scanIndex, depths, robotsTxts',
                      SetToSeq(sitemaps),
                      processURLDepth(processURLDepth(depths[idx])))
           IN /\ queue' =
                   IF urlIsAllowed(robotsTxts', queue[idx].url) THEN r.queue
                   ELSE update(r.queue, queue[idx].id,
                               Upd(0, TRUE, "disallowed", "", 0))
              /\ scanIndex' = r.scanIndex
              /\ depths' = r.depths
              /\ hist' = NoteQueueadd(r.queue, hist)
  /\ UNCHANGED isFirstRequest
  /\ depthFrame

\* The next item is downloaded: its links are queued when the depth test
\* lets them.
fetchLinks(links) ==
  /\ NextToFetch > 0
  /\ LET idx == NextToFetch
         q1 == update(queue, queue[idx].id, Upd(0, TRUE, "downloaded", "", 0))
         r == IF depthAllows(maxDepth, depths[idx])
                THEN queueAllAtDepth(q1, scanIndex, depths, robotsTxts,
                                     SetToSeq(links),
                                     processURLDepth(depths[idx]))
                ELSE [queue |-> q1, scanIndex |-> scanIndex,
                      depths |-> depths]
     IN /\ queue' = r.queue
        /\ scanIndex' = r.scanIndex
        /\ depths' = r.depths
        /\ hist' = NoteQueueadd(r.queue, hist)
  /\ isFirstRequest' = FALSE
  /\ UNCHANGED <<touchedHosts, robotsTxts>>
  /\ depthFrame

\* The next item is answered with a redirect: the target is queued, at the
\* initial depth when this is the first request.
fetchRedirect(target) ==
  /\ NextToFetch > 0
  /\ LET idx == NextToFetch
         q1 == update(queue, queue[idx].id, Upd(0, TRUE, "redirected", "", 0))
         depth == IF isFirstRequest THEN 1
                  ELSE processURLDepth(depths[idx])
         r == queueAtDepth(q1, scanIndex, depths, robotsTxts, target, depth)
     IN /\ queue' = r.queue
        /\ scanIndex' = r.scanIndex
        /\ depths' = r.depths
        /\ hist' = NoteQueueadd(r.queue, hist)
  /\ UNCHANGED <<isFirstRequest, touchedHosts, robotsTxts>>
  /\ depthFrame

\* The crawler just started: the seed is in the queue at the initial depth.
DepthInit ==
  /\ queue = addToQueue(<<>>, InitialURL)
  /\ oldestUnfetchedIndex = 0
  /\ scanIndex = {InitialURL}
  /\ running = TRUE
  /\ crawlIntervalID = 1
  /\ timers = {1}
  /\ timersMade = 1
  /\ pendingSetup = 0
  /\ fetchingRobotsTxt = FALSE
  /\ fetchingQueueItem = FALSE
  /\ touchedHosts = {}
  /\ robotsTxts = {}
  /\ robotsFetch = <<>>
  /\ openRequests = <<>>
  /\ requests = <<>>
  /\ openListeners = 0
  /\ holds = <<>>
  /\ pendPick = 0
  /\ pendUpdate = <<>>
  /\ pendCount = 0
  /\ pendLength = <<>>
  /\ respectRobotsTxt \in BOOLEAN
  /\ userCalls = 0
  /\ calls = <<"start">>
  /\ domainConfig = DefaultDomainConfig
  /\ fetchConditions = <<>>
  /\ admissions = <<>>
  /\ maxDepth \in 0..MaxMaxDepth
  /\ depths = <<QUEUE_ITEM_INITIAL_DEPTH>>
  /\ isFirstRequest = TRUE
  /\ ApiInit
  /\ hist = <<NoHist>>
  /\ completes = 0

DepthNext ==
  \/ \E sitemaps \in SUBSET DepthUrls : robotsTxtFetched(sitemaps)
  \/ \E links \in SUBSET DepthUrls : fetchLinks(links)
  \/ \E target \in DepthUrls : fetchRedirect(target)

DepthSpec == DepthInit /\ [][DepthNext]_vars

\* ----------------------------------------------------------------- the host
\* Crawler.host under redirects, with requests open side by side: the user
\* queues URLs, crawl() starts a request for the oldest unfetched item
\* while fewer than maxConcurrency are open, and each open request is
\* answered, in any order, by a redirect, by a response of another kind
\* handled to its end, or by no response at all.  robots.txt is not
\* consulted and hosts are not filtered.
hostFrame ==
  UNCHANGED <<oldestUnfetchedIndex, timerVars, fetchingQueueItem,
              robotsVars, holdVars, pendPick, pendUpdate, checkVars,
              respectRobotsTxt, admitVars, maxDepth, depths,
              allowInitialDomainChange, userVars, apiVars, hist,
              completes>>

\* crawler.queueURL(url), called by the user.
hostQueueURL(url) ==
  /\ LET r == queueURL(queue, scanIndex, robotsTxts, url)
     IN /\ queue' = r.queue
        /\ scanIndex' = r.scanIndex
  /\ UNCHANGED <<openRequests, requests, isFirstRequest, host, seedChain>>
  /\ hostFrame

\* crawl() and fetchQueueItem for the oldest unfetched item.
hostFetch ==
  /\ Len(openRequests) < HostConcurrency
  /\ NextToFetch > 0
  /\ LET id == queue[NextToFetch].id
     IN /\ queue' = update(queue, id, Upd(0, FALSE, "spooled", "", 0))
        /\ requests' = Append(requests, NewRequest(id))
        /\ openRequests' = Append(openRequests, Len(requests) + 1)
  /\ UNCHANGED <<scanIndex, isFirstRequest, host, seedChain>>
  /\ hostFrame

\* handleResponse for a 3xx response with a Location header, to the end of
\* the callback of its queue.update.
hostRedirect(r, target) ==
  /\ IndexOf(openRequests, r) > 0
  /\ LET id == requests[r].item
         q1 == update(queue, id, Upd(0, TRUE, "redirected", "", 0))
         res == queueURL(q1, scanIndex, robotsTxts, target)
     IN /\ queue' = res.queue
        /\ scanIndex' = res.scanIndex
        /\ host' = IF allowInitialDomainChange /\ isFirstRequest
                     THEN HostOf(target) ELSE host
        /\ seedChain' = IF id \in seedChain /\ Len(res.queue) > Len(queue)
                          THEN seedChain \cup {Len(queue)} ELSE seedChain
  /\ requests' = [requests EXCEPT ![r] = destroy(@)]
  /\ openRequests' = splice(openRequests, r)
  /\ UNCHANGED isFirstRequest
  /\ hostFrame

\* The end of an open request that is not redirected.  When it is answered
\* (2xx downloaded to the end, 304, 404, 410, any other status) the last
\* callback of handleResponse clears _isFirstRequest; when it ends with a
\* request error or a timeout, nothing does.
hostResponse(r, answered) ==
  /\ IndexOf(openRequests, r) > 0
  /\ queue' = update(queue, requests[r].item,
                     Upd(0, TRUE, IF answered THEN "downloaded" ELSE "failed",
                         "", 0))
  /\ isFirstRequest' = (isFirstRequest /\ ~answered)
  /\ requests' = [requests EXCEPT ![r] = destroy(@)]
  /\ openRequests' = splice(openRequests, r)
  /\ UNCHANGED <<scanIndex, host, seedChain>>
  /\ hostFrame

\* The crawler just started, with or without allowInitialDomainChange: the
\* item of the initial URL is in the queue.
HostInit ==
  /\ queue = addToQueue(<<>>, InitialURL)
  /\ oldestUnfetchedIndex = 0
  /\ scanIndex = {InitialURL}
  /\ running = TRUE
  /\ crawlIntervalID = 1
  /\ timers = {1}
  /\ timersMade = 1
  /\ pendingSetup = 0
  /\ fetchingRobotsTxt = FALSE
  /\ fetchingQueueItem = FALSE
  /\ touchedHosts = {}
  /\ robotsTxts = {}
  /\ robotsFetch = <<>>
  /\ openRequests = <<>>
  /\ requests = <<>>
  /\ openListeners = 0
  /\ holds = <<>>
  /\ pendPick = 0
  /\ pendUpdate = <<>>
  /\ pendCount = 0
  /\ pendLength = <<>>
  /\ respectRobotsTxt = FALSE
  /\ userCalls = 0
  /\ calls = <<"start">>
  /\ domainConfig = [DefaultDomainConfig EXCEPT !.filterByDomain = FALSE]
  /\ fetchConditions = <<>>
  /\ admissions = <<>>
  /\ maxDepth = 0
  /\ depths = <<QUEUE_ITEM_INITIAL_DEPTH>>
  /\ isFirstRequest = TRUE
  /\ host = CrawlerHost
  /\ allowInitialDomainChange \in BOOLEAN
  /\ seedChain = {0}
  /\ file = [written |-> FALSE, items |-> <<>>]
  /\ lastCall = NoCall
  /\ downloadConditions = <<>>
  /\ cookies = <<>>
  /\ hist = <<NoHist>>
  /\ completes = 0

HostNext ==
  \/ \E url \in 1..NHostUrls : hostQueueURL(url)
  \/ hostFetch
  \/ \E r \in 1..NHostUrls, target \in 1..NHostUrls : hostRedirect(r, target)
  \/ \E r \in 1..NHostUrls, answered \in BOOLEAN : hostResponse(r, answered)

HostSpec == HostInit /\ [][HostNext]_vars

\* ------------------------------------------------------------ domainValid
\* Crawler.domainValid called on a crawler that was just constructed, for
\* an initial URL with or without www., with any setting of the four fields
\* it reads, for each of the hosts.
DomainHosts == {HostA, HostWWW, HostSub, HostTail, HostOther}

callDomainValid(h) ==
  /\ lastCall' = [op |-> "domainValid", error |-> "",
                  value |-> IF domainValid(h, domainConfig) THEN 1 ELSE 0]
  /\ UNCHANGED <<queueVars, timerVars, fetchingQueueItem, robotsVars,
                 openRequests, requests, holdVars, pendPick, pendUpdate,
                 checkVars, respectRobotsTxt, admitVars, depthVars,
                 hostVars, userVars, file, downloadConditions, cookies,
                 hist, completes>>

DomainInit ==
  /\ queue = <<>>
  /\ oldestUnfetchedIndex = 0
  /\ scanIndex = {}
  /\ running = FALSE
  /\ crawlIntervalID = 0
  /\ timers = {}
  /\ timersMade = 0
  /\ pendingSetup = 0
  /\ fetchingRobotsTxt = FALSE
  /\ fetchingQueueItem = FALSE
  /\ touchedHosts = {}
  /\ robotsTxts = {}
  /\ robotsFetch = <<>>
  /\ openRequests = <<>>
  /\ requests = <<>>
  /\ openListeners = 0
  /\ holds = <<>>
  /\ pendPick = 0
  /\ pendUpdate = <<>>
  /\ pendCount = 0
  /\ pendLength = <<>>
  /\ respectRobotsTxt = FALSE
  /\ userCalls = 0
  /\ calls = <<>>
  /\ domainConfig \in
       [filterByDomain : BOOLEAN, ignoreWWWDomain : BOOLEAN,
        scanSubdomains : BOOLEAN,
        domainWhitelist : SUBSET {HostSub, HostOther}]
  /\ fetchConditions = <<>>
  /\ admissions = <<>>
  /\ maxDepth = 0
  /\ depths = <<>>
  /\ isFirstRequest = TRUE
  /\ host \in {HostA, HostWWW}
  /\ allowInitialDomainChange = FALSE
  /\ seedChain = {}
  /\ file = [written |-> FALSE, items |-> <<>>]
  /\ lastCall = NoCall
  /\ downloadConditions = <<>>
  /\ cookies = <<>>
  /\ hist = <<>>
  /\ completes = 0

DomainNext == \E h \in DomainHosts : callDomainValid(h)

DomainSpec == DomainInit /\ [][DomainNext]_vars

\* ---------------------------------------------------------------- the queue
\* FetchQueue as its callers drive it: add, update, oldestUnfetchedItem,
\* freeze and defrost are called in any order on one queue that starts
\* empty.  fs.writeFile and fs.readFile succeed whenever the file exists.

\* The statuses that update is called with.
QueueStatuses == {"queued", "spooled", "downloaded"}

queueFrame ==
  UNCHANGED <<timerVars, fetchingQueueItem, robotsVars, openRequests,
              requests, holdVars, pendPick, pendUpdate, checkVars,
              respectRobotsTxt, admitVars, depthVars, hostVars, userVars,
              downloadConditions, cookies, hist, completes>>

\* queue.add(queueItem, force, callback), where queueItem has the given
\* URL.  instance = 0: queueItem is an object that is not in the queue;
\* instance = i: it is the object at position i of the queue, which a
\* caller passes again only while its URL is in the scan index.
queueAdd(url, force, instance) ==
  /\ instance > 0 => queue[instance].url = url /\ exists(scanIndex, url)
  /\ LET r == addForce(queue, scanIndex, url, force, instance > 0)
     IN /\ Len(r.queue) <= MaxQueueLen
        /\ queue' = r.queue
        /\ scanIndex' = r.scanIndex
        /\ lastCall' = [op |-> "add", error |-> r.error, value |-> url]
  /\ UNCHANGED <<oldestUnfetchedIndex, file>>
  /\ queueFrame

\* queue.update(id, updates, callback)
queueUpdate(id, u) ==
  /\ queue' = update(queue, id, u)
  /\ lastCall' =
       [op |-> "update",
        error |-> IF \E i \in 1..Len(queue) : queue[i].id = id
                    THEN "" ELSE "ERROR",
        value |-> id]
  /\ UNCHANGED <<oldestUnfetchedIndex, scanIndex, file>>
  /\ queueFrame

\* queue.oldestUnfetchedItem(callback).  The loop starts at the cursor: at
\* a negative cursor it reads the status of this[-1], which is undefined,
\* and the call throws a TypeError.  value is the position (from 1) of
\* the item called back, 0 for null.
queueOldestUnfetchedItem ==
  /\ IF oldestUnfetchedIndex < 0
       THEN /\ lastCall' = [op |-> "oldestUnfetchedItem",
                            error |-> "TypeError", value |-> 0]
            /\ UNCHANGED oldestUnfetchedIndex
       ELSE LET i == oldestUnfetchedItem(queue, oldestUnfetchedIndex)
            IN /\ oldestUnfetchedIndex' =
                    IF i = 0 THEN oldestUnfetchedIndex ELSE i - 1
               /\ lastCall' = [op |-> "oldestUnfetchedItem",
                               error |-> "", value |-> i]
  /\ UNCHANGED <<queue, scanIndex, file>>
  /\ queueFrame

\* The forEach of freeze: an item that is not fetched gets status queued.
freezeItems(q) ==
  [i \in 1..Len(q) |->
     IF ~q[i].fetched THEN [q[i] EXCEPT !.status = "queued"] ELSE q[i]]

\* JSON.stringify of the queue followed by JSON.parse: the array elements
\* with the values of their fields, as objects that are not in any queue;
\* the cursor and the scan index are not array elements and are not
\* written.
jsonRoundTrip(q) ==
  [i \in 1..Len(q) |->
     [url |-> q[i].url, id |-> q[i].id, status |-> q[i].status,
      fetched |-> q[i].fetched]]

\* queue.freeze(filename, callback)
freeze ==
  /\ queue' = freezeItems(queue)
  /\ file' = [written |-> TRUE, items |-> jsonRoundTrip(queue')]
  /\ lastCall' = [op |-> "freeze", error |-> "", value |-> 0]
  /\ UNCHANGED <<oldestUnfetchedIndex, scanIndex>>
  /\ queueFrame

\* The crawl with queue.freeze called on crawler.queue, once, at any time.
FreezeNext == Next \/ (~file.written /\ freeze)

FreezeSpec == Init /\ [][FreezeNext]_vars

\* The cursor that the forEach of defrost computes, index counting from 0.
RECURSIVE defrostCursor(_, _, _)
defrostCursor(d, index, cursor) ==
  IF index >= Len(d) THEN cursor
  ELSE defrostCursor(d, index + 1,
         IF d[index + 1].status = "queued" /\ cursor > index
           THEN index ELSE cursor)

\* queue.defrost(filename, callback): the items of the file are pushed
\* onto this queue; the scan index and the cursor are set from the file.
defrost ==
  /\ IF ~file.written
       THEN /\ lastCall' = [op |-> "defrost", error |-> "ENOENT",
                            value |-> 0]
            /\ UNCHANGED queueVars
       ELSE /\ Len(queue) + Len(file.items) <= MaxQueueLen
            /\ queue' = queue \o file.items
            /\ scanIndex' =
                 {file.items[i].url : i \in 1..Len(file.items)}
            /\ oldestUnfetchedIndex' =
                 defrostCursor(file.items, 0, Len(file.items) - 1)
            /\ lastCall' = [op |-> "defrost", error |-> "", value |-> 0]
  /\ UNCHANGED file
  /\ queueFrame

QueueCalls ==
  \/ \E url \in Urls, force \in BOOLEAN, instance \in 0..Len(queue) :
       queueAdd(url, force, instance)
  \/ \E id \in 0..(MaxQueueLen - 1),
        u \in [fetched : BOOLEAN, status : QueueStatuses \cup {""}] :
       queueUpdate(id, u)
  \/ queueOldestUnfetchedItem

\* A queue that only add, update and oldestUnfetchedItem are called on.
AddUpdateSpec == Init /\ [][QueueCalls]_vars

\* new FetchQueue(): the caller goes on with a queue just constructed, as
\* a new crawler has it; the file stays where it is.
newFetchQueue ==
  /\ queue' = <<>>
  /\ scanIndex' = {}
  /\ oldestUnfetchedIndex' = 0
  /\ lastCall' = [op |-> "new", error |-> "", value |-> 0]
  /\ UNCHANGED file
  /\ queueFrame

QueueNext ==
  \/ QueueCalls
  \/ freeze
  \/ defrost
  \/ newFetchQueue

QueueSpec == Init /\ [][QueueNext]_vars

\* ----------------------------------------------------- condition arrays
\* addFetchCondition, removeFetchCondition, addDownloadCondition and
\* removeDownloadCondition called in any order.  A function is named by
\* its slot value, "sync" or "async"; "removed" is undefined.

Functions == Slots \ {"removed"}

\* The arguments the calls are made with: a function or a number.
ConditionArgs ==
  [type : {"function"}, f : Functions, n : {0}]
    \cup [type : {"number"}, f : {""}, n : -1..MaxSlots]

\* Array.prototype.indexOf, counting from 1; 0 when f is not found.
indexOf(conditions, f) ==
  LET hits == {i \in 1..Len(conditions) : conditions[i] = f}
  IN IF hits = {} THEN 0 ELSE CHOOSE i \in hits : \A j \in hits : i <= j

\* addFetchCondition and addDownloadCondition on their array: the array
\* and the id returned, or the error thrown.
addCondition(conditions, callback) ==
  IF callback.type # "function"
    THEN [conditions |-> conditions, error |-> "Error", value |-> 0]
    ELSE [conditions |-> Append(conditions, callback.f), error |-> "",
          value |-> Len(conditions)]

\* removeFetchCondition taking the slot out of the array.
removeConditionSplice(conditions, id) ==
  LET k == IF id.type = "function" THEN indexOf(conditions, id.f)
           ELSE IF /\ id.n >= 0
                   /\ id.n < Len(conditions)
                   /\ conditions[id.n + 1] # "removed"
             THEN id.n + 1
           ELSE 0
  IN IF k = 0
       THEN [conditions |-> conditions, error |-> "Error", value |-> 0]
       ELSE [conditions |-> RemoveAt(conditions, k), error |-> "",
             value |-> 1]

\* removeFetchCondition whose test of the slot is left out.
removeConditionAnySlot(conditions, id) ==
  IF id.type = "function" /\ indexOf(conditions, id.f) # 0
    THEN [conditions |->
            [conditions EXCEPT ![indexOf(conditions, id.f)] = "removed"],
          error |-> "", value |-> 1]
  ELSE IF id.type = "number" /\ id.n >= 0 /\ id.n < Len(conditions)
    THEN [conditions |-> [conditions EXCEPT ![id.n + 1] = "removed"],
          error |-> "", value |-> 1]
  ELSE [conditions |-> conditions, error |-> "Error", value |-> 0]

\* removeFetchCondition and removeDownloadCondition on their array: the
\* slot found is set to undefined and true (value 1) is returned;
\* otherwise the call throws.
removeCondition(conditions, id) ==
  IF id.type = "function" /\ indexOf(conditions, id.f) # 0
    THEN [conditions |->
            [conditions EXCEPT ![indexOf(conditions, id.f)] = "removed"],
          error |-> "", value |-> 1]
  ELSE IF /\ id.type = "number"
          /\ id.n >= 0
          /\ id.n < Len(conditions)
          /\ conditions[id.n + 1] # "removed"
    THEN [conditions |-> [conditions EXCEPT ![id.n + 1] = "removed"],
          error |-> "", value |-> 1]
  ELSE [conditions |-> conditions, error |-> "Error", value |-> 0]

conditionFrame ==
  UNCHANGED <<queueVars, timerVars, fetchingQueueItem, robotsVars,
              openRequests, requests, holdVars, pendPick, pendUpdate,
              checkVars, respectRobotsTxt, domainConfig, admissions,
              depthVars, hostVars, userVars, file, cookies, hist,
              completes>>

addFetchCondition(callback) ==
  /\ LET r == addCondition(fetchConditions, callback)
     IN /\ Len(r.conditions) <= MaxSlots
        /\ fetchConditions' = r.conditions
        /\ lastCall' = [op |-> "addFetchCondition", error |-> r.error,
                        value |-> r.value]
  /\ UNCHANGED downloadConditions
  /\ conditionFrame

removeFetchCondition(id) ==
  /\ LET r == removeCondition(fetchConditions, id)
     IN /\ fetchConditions' = r.conditions
        /\ lastCall' = [op |-> "removeFetchCondition", error |-> r.error,
                        value |-> r.value]
  /\ UNCHANGED downloadConditions
  /\ conditionFrame

addDownloadCondition(callback) ==
  /\ LET r == addCondition(downloadConditions, callback)
     IN /\ Len(r.conditions) <= MaxSlots
        /\ downloadConditions' = r.conditions
        /\ lastCall' = [op |-> "addDownloadCondition", error |-> r.error,
                        value |-> r.value]
  /\ UNCHANGED fetchConditions
  /\ conditionFrame

removeDownloadCondition(id) ==
  /\ LET r == removeCondition(downloadConditions, id)
     IN /\ downloadConditions' = r.conditions
        /\ lastCall' = [op |-> "removeDownloadCondition",
                        error |-> r.error, value |-> r.value]
  /\ UNCHANGED fetchConditions
  /\ conditionFrame

ConditionNext ==
  \/ \E callback \in ConditionArgs : addFetchCondition(callback)
  \/ \E id \in ConditionArgs : removeFetchCondition(id)
  \/ \E callback \in ConditionArgs : addDownloadCondition(callback)
  \/ \E id \in ConditionArgs : removeDownloadCondition(id)

ConditionSpec == Init /\ [][ConditionNext]_vars

\* ------------------------------------------------------------ cookie jar
\* CookieJar.add, getAsHeader and remove called with any names, values,
\* domains and paths.  A domain or a path is the sequence of its
\* characters; the domain of a cookie made without one is "*".  expires
\* is -1 (never) or 0 (a time in the past); the empty string stands for a
\* filter that is not given.

CookieNames == {"n", "m"}
CookieValues == 1..2
CookieDomains == {<<"*">>, HostA, HostSub, HostOther}
CookiePaths == {<<"/">>, <<"/", "t">>}

\* domain.split("").reverse().join("")
reverse(str) == [i \in 1..Len(str) |-> str[Len(str) + 1 - i]]

\* String.prototype.startsWith
startsWith(str, prefix) ==
  /\ Len(prefix) <= Len(str)
  /\ \A i \in 1..Len(prefix) : str[i] = prefix[i]

\* Cookie.matchDomain
matchDomain(cookie, domain) ==
  IF cookie.domain = <<"*">> THEN TRUE
  ELSE startsWith(reverse(cookie.domain), reverse(domain))

\* this.cookies.findIndex in CookieJar.add, counting from 1; 0 for -1.
findIndex(jar, newCookie) ==
  LET hits == {i \in 1..Len(jar) :
                 /\ jar[i].name = newCookie.name
                 /\ matchDomain(jar[i], newCookie.domain)}
  IN IF hits = {} THEN 0 ELSE CHOOSE i \in hits : \A j \in hits : i <= j

cookieFrame ==
  UNCHANGED <<queueVars, timerVars, fetchingQueueItem, robotsVars,
              openRequests, requests, holdVars, pendPick, pendUpdate,
              checkVars, respectRobotsTxt, admitVars, depthVars, hostVars,
              userVars, file, downloadConditions, hist, completes>>

\* CookieJar.add(name, value, expiry, path, domain)
cookieJarAdd(name, value, domain) ==
  /\ \E path \in CookiePaths, expires \in {-1, 0} :
       LET newCookie == [name |-> name, value |-> value,
                         domain |-> domain, path |-> path,
                         expires |-> expires]
           existingIndex == findIndex(cookies, newCookie)
       IN cookies' = IF existingIndex = 0 THEN Append(cookies, newCookie)
                     ELSE [cookies EXCEPT ![existingIndex] = newCookie]
  /\ Len(cookies') <= MaxJar
  /\ lastCall' = [op |-> "cookieJarAdd", error |-> "", value |-> value]
  /\ cookieFrame

\* Cookie.matchPath
matchPath(cookie, path) ==
  IF cookie.path = <<>> THEN TRUE ELSE startsWith(path, cookie.path)

\* The filter of CookieJar.getAsHeader: the positions of the cookies
\* whose name=value pair is returned, in the order of the jar.  isExpired
\* is expires >= 0 and expires < Date.now().
getAsHeader(jar, domain, path) ==
  SelectSeq([i \in 1..Len(jar) |-> i],
    LAMBDA i :
      IF jar[i].expires >= 0 THEN FALSE
      ELSE IF domain = <<>> /\ path = <<>> THEN TRUE
      ELSE IF domain # <<>> THEN matchDomain(jar[i], domain)
      ELSE matchPath(jar[i], path))

\* CookieJar.getAsHeader(domain, path)
cookieJarGetAsHeader(domain, path) ==
  /\ lastCall' = [op |-> "getAsHeader", error |-> "",
                  value |-> Len(getAsHeader(cookies, domain, path))]
  /\ UNCHANGED cookies
  /\ cookieFrame

\* The forEach of CookieJar.remove, at index from 0 of the length that the
\* jar had when the call began: an index that the array no longer has is
\* skipped; a cookie that matches is spliced out of the array that is
\* being walked.
RECURSIVE removeLoop(_, _, _, _, _, _)
removeLoop(jar, removed, index, length, name, domain) ==
  IF index >= length \/ index >= Len(jar)
    THEN [cookies |-> jar, removed |-> removed]
  ELSE IF name # "" /\ jar[index + 1].name # name
    THEN removeLoop(jar, removed, index + 1, length, name, domain)
  ELSE IF domain # <<>> /\ ~matchDomain(jar[index + 1], domain)
    THEN removeLoop(jar, removed, index + 1, length, name, domain)
  ELSE removeLoop(RemoveAt(jar, index + 1),
                  Append(removed, <<jar[index + 1]>>), index + 1, length,
                  name, domain)

\* CookieJar.remove(name, domain)
cookieJarRemove(name, domain) ==
  /\ LET r == removeLoop(cookies, <<>>, 0, Len(cookies), name, domain)
     IN /\ cookies' = r.cookies
        /\ lastCall' = [op |-> "remove", error |-> "",
                        value |-> Len(r.removed)]
  /\ cookieFrame

CookieNext ==
  \/ \E name \in CookieNames, value \in CookieValues,
        domain \in CookieDomains : cookieJarAdd(name, value, domain)
  \/ \E domain \in CookieDomains \cup {<<>>},
        path \in CookiePaths \cup {<<>>} :
       cookieJarGetAsHeader(domain, path)
  \/ \E name \in CookieNames \cup {""},
        domain \in CookieDomains \cup {<<>>} :
       cookieJarRemove(name, domain)

CookieSpec == Init /\ [][CookieNext]_vars

\* ------------------------------------------------------------- properties
\* Vocabulary of the properties: request r is in the open-requests list; the
\* statuses an item may end with.
Tracked(r) == IndexOf(openRequests, r) > 0

TerminalStatuses ==
  {"downloaded", "redirected", "notfound", "failed", "timeout",
   "disallowed", "downloadprevented"}

\* C1: in every reachable state the open-requests list holds at most
\* maxConcurrency requests, for every interleaving of ticks, queue
\* callbacks, robots.txt completions and response callbacks.
C1_OpenRequestsWithinMaxConcurrency == Len(openRequests) <= MaxConcurrency

\* The list is full while a queued item waits and the interval timer runs:
\* a tick now is turned away by the concurrency cap alone.
C1_Witness ==
  /\ Len(openRequests) = MaxConcurrency
  /\ timers # {}
  /\ pendingSetup = 0
  /\ ~fetchingRobotsTxt
  /\ ~fetchingQueueItem
  /\ oldestUnfetchedItem(queue, oldestUnfetchedIndex) > 0

\* C2: every queue item is handed to the request engine at most once (at
\* most one fetchstart per item), also when oldestUnfetchedItem and update
\* complete later than the interval, so that ticks fire while a pick or a
\* spool update is pending.
C2_AtMostOneFetchstart == \A i \in 1..Len(hist) : hist[i].starts <= 1

\* A spool update is pending while the interval timer runs and the list has
\* room: a tick now is turned away by fetchingQueueItem alone.
C2_Witness ==
  /\ timers # {}
  /\ pendingSetup = 0
  /\ Len(openRequests) < MaxConcurrency
  /\ ~fetchingRobotsTxt
  /\ fetchingQueueItem
  /\ pendUpdate # <<>>
  /\ Head(pendUpdate).cont = "spooled"
  /\ Item(Head(pendUpdate).id).status = "queued"

\* C3: with respectRobotsTxt on, no request is started for a queue item
\* whose URL the registered robots.txt rules of its origin disallow,
\* whether the item was queued before or after the robots.txt was fetched.
C3_NoRequestForDisallowedItem ==
  respectRobotsTxt =>
    \A i \in 1..Len(queue) :
      hist[i].starts > 0 => urlIsAllowed(robotsTxts, queue[i].url)

\* C4: for every item with fetched = true exactly one terminal event has
\* been emitted: never none and never two.
C4_ExactlyOneTerminalEvent ==
  \A i \in 1..Len(queue) : queue[i].fetched => hist[i].terms = 1

\* C5: each request pushed onto the open-requests list is removed exactly
\* once, when its item reaches its outcome, and no removal deletes the
\* entry of another request: a tracked request whose item is fetched is
\* only waiting for its abort event, and a request that still waits for its
\* outcome is tracked.
C5_OpenRequestsAreTheRequestsInFlight ==
  \A r \in 1..Len(requests) :
    /\ (Tracked(r) /\ Item(requests[r].item).fetched) => requests[r].abortEvent
    /\ (requests[r].phase \in {"sent", "response", "body", "stalled"}
          /\ ~Item(requests[r].item).fetched) => Tracked(r)

\* C6: under fairness, a started crawl that is not stopped eventually emits
\* complete, whatever the responses and the download conditions' outcomes.
C6_StartedCrawlCompletes == running ~> (completes > 0)

\* C7: complete is emitted at most once between a start() and the next
\* start(), also when countItems and getLength are deferred.
C7_CompleteAtMostOncePerStart == completes <= 1

\* C8: whenever complete is emitted, every queue item has fetched = true,
\* the open-requests list is empty and no wait hold is outstanding.
C8_CompleteMeansAllDone ==
  [][completes' > completes =>
       /\ \A i \in 1..Len(queue) : queue[i].fetched
       /\ openRequests = <<>>
       /\ openListeners = 0]_vars

\* C9: every item with fetched = true has a terminal status, and once an
\* item has fetched = true its fetched and status fields change no more.
C9_FetchedItemsAreFinal ==
  /\ [](\A i \in 1..Len(queue) :
          queue[i].fetched => queue[i].status \in TerminalStatuses)
  /\ [][\A i \in 1..Len(queue) :
          queue[i].fetched =>
            /\ queue'[i].fetched
            /\ queue'[i].status = queue[i].status]_vars

\* C10: when a terminal event is emitted for an item, the queue holds the
\* item with fetched = true and a terminal status.
C10_TerminalStateBeforeEvent ==
  [][\A i \in 1..Len(hist) :
       hist'[i].terms > hist[i].terms =>
         /\ queue'[i].fetched
         /\ queue'[i].status \in TerminalStatuses]_vars

\* C11: for every item the lifecycle events come in the order queueadd,
\* fetchstart, fetchheaders, terminal event: no fetchstart before a
\* queueadd for the item, no fetchheaders before its fetchstart, and no
\* terminal event derived from the response before its fetchheaders.
C11_LifecycleEventsInOrder ==
  /\ [](\A i \in 1..Len(hist) :
          /\ hist[i].starts > 0 => hist[i].added
          /\ hist[i].headers => hist[i].starts > 0)
  /\ [][(\/ responseTerminal
         \/ redirectUpdated
         \/ downloadedUpdated
         \/ \E r \in 1..Len(requests) : bodyTooBig(r))
          => \A i \in 1..Len(hist) :
               hist'[i].terms > hist[i].terms => hist[i].headers]_vars

\* Vocabulary: the last start() or stop() call was a stop() without abort
\* (with abort), so that the crawler is between that stop and the next
\* start().
AfterStop == calls # <<>> /\ calls[Len(calls)] = "stop"
AfterAbortingStop == calls # <<>> /\ calls[Len(calls)] = "abort"

\* C12: after stop() without abort has returned and until the next start(),
\* no fetchstart is emitted, while the stop() aborts no open request; this
\* for every interleaving of the stop() with the deferred timer setup of
\* start(), a pending queue pick and a pending robots.txt fetch.
C12_NoFetchstartAfterStop ==
  /\ [][AfterStop =>
          \A i \in 1..Len(hist) : hist'[i].starts = hist[i].starts]_vars
  /\ [][userStop(FALSE) =>
          \A r \in 1..Len(requests) :
            requests'[r].aborted = requests[r].aborted]_vars

\* C13: stop(true) calls abort on every request of the open-requests list,
\* and once the abort notifications are delivered the list is empty; no
\* fetchclienterror and no fetchtimeout is emitted for a request that was
\* aborted by hand (the timeout listener aborts a request only after its
\* fetchtimeout, so a request that is aborted before the event was aborted
\* by stop).
C13_AbortingStopEmptiesOpenRequests ==
  /\ [][userStop(TRUE) =>
          \A r \in 1..Len(requests) : Tracked(r) => requests'[r].aborted]_vars
  /\ [](AfterAbortingStop /\ (\A r \in 1..Len(requests) :
                                ~requests[r].abortEvent)
          => openRequests = <<>>)
  /\ [][(timeoutUpdated \/ errorUpdated) =>
          ~requests[Head(pendUpdate).req].aborted]_vars

\* C14: start() called while the crawler is running has no effect: the
\* queue, the interval timer and its deferred setup, the in-flight flags
\* and the open-requests list are unchanged, and no crawlstart is emitted.
C14_StartWhileRunningHasNoEffect ==
  [][(running /\ start) =>
       /\ UNCHANGED <<queueVars, timers, crawlIntervalID, pendingSetup,
                      fetchingRobotsTxt, fetchingQueueItem, openRequests>>
       /\ calls' # Append(calls, "start")]_vars

\* start() has just been called on a crawler that is running a request.
C14_Witness ==
  /\ running
  /\ calls # <<>>
  /\ calls[Len(calls)] = "ignored"
  /\ openRequests # <<>>
  /\ timers # {}

\* Vocabulary: start() has been called after a stop() and no stop() was
\* called since.
Resumed ==
  /\ \E k \in 2..(Len(calls) - 1) :
       /\ calls[k] \in {"stop", "abort"}
       /\ calls[k + 1] = "start"
       /\ \E j \in 1..(k - 1) : calls[j] = "start"
  /\ ~AfterStop
  /\ ~AfterAbortingStop

\* C15: after stop() followed by start() the crawl resumes on the same
\* queue (the seed is not added twice, crawlstart is emitted again) and,
\* under fairness, eventually emits complete; every item that was unfetched
\* or in flight at the stop, also one whose request stop(true) aborted,
\* eventually reaches a terminal status.
C15_ResumedCrawlCompletes ==
  /\ [](\A i, j \in 1..Len(queue) : queue[i].url = queue[j].url => i = j)
  /\ (Resumed /\ running) ~>
       (completes > 0 \/ AfterStop \/ AfterAbortingStop)
  /\ \A i \in 1..NUrls :
       (Resumed /\ running /\ i <= Len(queue)) ~>
         \/ /\ i <= Len(queue)
            /\ queue[i].fetched
            /\ queue[i].status \in TerminalStatuses
         \/ AfterStop
         \/ AfterAbortingStop

\* C16: complete is never emitted while a hold taken with wait() is neither
\* released nor expired.
C16_NoCompleteWhileHoldOpen ==
  [][completes' > completes =>
       \A h \in 1..Len(holds) : holds[h] # "open"]_vars

\* Vocabulary: the results that the conditions of a queueURL call have
\* yielded so far.
ResultsOf(c) == {c.results[k] : k \in 1..Len(c.results)}

\* C17: every queueURL call whose URL parses emits exactly one admission
\* event, chosen by the first failing check in the order domain validity
\* (invaliddomain), robots rules (fetchdisallowed), fetch conditions
\* (fetchprevented or fetchconditionerror), queue add (queueduplicate for a
\* DUPLICATE error, queueerror for another error), and queueadd when all
\* pass; no event is due only while a condition is pending.  The queue gains
\* an item in the queueadd case and in no other.
C17_OneAdmissionEventByFirstFailingCheck ==
  /\ \A n \in 1..Len(admissions) :
       LET c == admissions[n]
       IN c.url # 0 =>
            /\ Len(c.events) <= 1
            /\ c.added <=> c.events = <<"queueadd">>
            /\ IF ~domainValid(HostOf(c.url), domainConfig)
                 THEN c.events = <<"invaliddomain">>
               ELSE IF ~urlIsAllowed(robotsTxts, c.url)
                 THEN c.events = <<"fetchdisallowed">>
               ELSE IF ResultsOf(c) \cap {"false", "error"} # {}
                 THEN \/ c.events = <<"fetchprevented">>
                         /\ "false" \in ResultsOf(c)
                      \/ c.events = <<"fetchconditionerror">>
                         /\ "error" \in ResultsOf(c)
               ELSE IF "pending" \in ResultsOf(c)
                 THEN c.events = <<>>
               ELSE \/ c.events = <<"queueadd">>
                    \/ c.events = <<"queueduplicate">> /\ ~c.force
                    \/ c.events = <<"queueerror">> /\ c.force /\ c.included
  /\ Len(queue) =
       1 + Cardinality({n \in 1..Len(admissions) : admissions[n].added})

\* Two calls have been settled by the last checks of the order: one was
\* turned away as a duplicate after its asynchronous condition passed, the
\* other by a condition.
C17_Witness ==
  /\ \E n \in 1..Len(admissions) :
       /\ admissions[n].events = <<"queueduplicate">>
       /\ \E k \in 1..Len(fetchConditions) : fetchConditions[k] = "async"
  /\ \E n \in 1..Len(admissions) :
       admissions[n].events = <<"fetchconditionerror">>

\* C18: a URL is added to the queue only if every live fetch condition,
\* synchronous or asynchronous and in whatever order they complete, yielded
\* a truthy value without error; a removed slot counts as passing, so a call
\* whose live conditions all passed goes on to queue.add.
C18_AddedOnlyIfEveryConditionPassed ==
  \A n \in 1..Len(admissions) :
    LET c == admissions[n]
        livePassed ==
          /\ Len(c.results) = Len(fetchConditions)
          /\ \A k \in 1..Len(fetchConditions) :
               fetchConditions[k] # "removed" => c.results[k] = "true"
    IN /\ c.added => livePassed
       /\ (/\ c.url # 0
           /\ domainValid(HostOf(c.url), domainConfig)
           /\ urlIsAllowed(robotsTxts, c.url)
           /\ livePassed)
            => c.events \in
                 {<<"queueadd">>, <<"queueduplicate">>, <<"queueerror">>}

\* A URL was added past a removed slot and an asynchronous condition, while
\* another call waits for that condition.
C18_Witness ==
  /\ fetchConditions = <<"removed", "async">>
  /\ \E n \in 1..Len(admissions) : admissions[n].added
  /\ \E n \in 1..Len(admissions) : "pending" \in ResultsOf(admissions[n])

\* C19: the download conditions are asked only for a 2xx response whose
\* declared content length is within maxResourceSize; when a live download
\* condition yields a falsy value the item ends with fetched = true and
\* status downloadprevented, downloadprevented is emitted and fetchcomplete
\* is not, and its body is not streamed.
C19_DownloadConditionsGateTheBody ==
  /\ [][\A o \in ConditionOutcomes :
          (/\ handleResponse(o)
           /\ \/ Len(pendUpdate') < Len(pendUpdate)
              \/ pendUpdate'[Len(pendUpdate')].cont
                   \in {"downloadprevented", "headers"})
            => Head(pendUpdate).kind \in {"ok", "binary"}]_vars
  /\ [][(handleResponse("prevent")
           /\ Head(pendUpdate).kind \in {"ok", "binary"})
          => /\ pendUpdate'[Len(pendUpdate')].cont = "downloadprevented"
             /\ pendUpdate'[Len(pendUpdate')].fetched]_vars
  /\ [](\A i \in 1..Len(queue) :
          queue[i].status = "downloadprevented" =>
            /\ queue[i].fetched
            /\ hist[i].terms >= 1
            /\ hist[i].headers
            /\ ~hist[i].complete)
  /\ [](\A r \in 1..Len(requests) :
          requests[r].phase = "body" =>
            /\ Item(requests[r].item).status # "downloadprevented"
            /\ \A k \in 1..Len(pendUpdate) :
                 pendUpdate[k].req = r =>
                   pendUpdate[k].cont # "downloadprevented")

\* A download condition has prevented the download of a 2xx response: the
\* item is fetched with status downloadprevented and its request is gone.
C19_Witness ==
  \E r \in 1..Len(requests) :
    /\ Item(requests[r].item).status = "downloadprevented"
    /\ Item(requests[r].item).fetched
    /\ hist[requests[r].item + 1].terms = 1
    /\ ~hist[requests[r].item + 1].complete
    /\ requests[r].phase = "closed"
    /\ ~Tracked(r)

\* C20: with maxDepth = k > 0 no item of depth above k is ever added to the
\* queue, whichever way it came in (a link, a redirect target, a sitemap
\* URL of a robots.txt); with maxDepth = 0 the depth never keeps a link out
\* of the queue.
C20_NoItemBeyondMaxDepth ==
  /\ [](maxDepth > 0 => \A i \in 1..Len(depths) : depths[i] <= maxDepth)
  /\ [][\A links \in SUBSET DepthUrls :
          (maxDepth = 0 /\ fetchLinks(links)) =>
            \A v \in links :
              urlIsAllowed(robotsTxts, v) => v \in scanIndex']_vars

\* The items of the queue that have the given URL.
ItemsWithUrl(q, url) == {i \in 1..Len(q) : q[i].url = url}

\* C21: add without force of an item whose URL is already in the queue
\* fails with code DUPLICATE and leaves the queue, the scan index and the
\* cursor as they were; queueURL emits queueduplicate for that error and
\* not queueadd, so a URL that had one item still has one.
C21_DuplicateAddIsRejected ==
  [][\A url \in Urls, instance \in 0..Len(queue) :
       (queueAdd(url, FALSE, instance) /\ ItemsWithUrl(queue, url) # {}) =>
         /\ lastCall'.error = "DUPLICATE"
         /\ UNCHANGED queueVars
         /\ addEvent(lastCall'.error) = "queueduplicate"
         /\ Cardinality(ItemsWithUrl(queue', url)) =
              Cardinality(ItemsWithUrl(queue, url))]_vars

C21_Witness ==
  /\ lastCall.op = "add"
  /\ lastCall.error = "DUPLICATE"
  /\ Cardinality(ItemsWithUrl(queue, lastCall.value)) = 1

\* C22: add with force of an item whose URL is already in the queue
\* appends the item as a new entry when the object is not in the queue,
\* and fails with an error other than DUPLICATE, leaving the queue as it
\* was, when the object is in the queue.
C22_ForcedAddAppendsUnlessSameObject ==
  [][\A url \in Urls, instance \in 0..Len(queue) :
       (queueAdd(url, TRUE, instance) /\ ItemsWithUrl(queue, url) # {}) =>
         IF instance = 0
           THEN /\ lastCall'.error = ""
                /\ queue' = Append(queue,
                     [url |-> url, id |-> Len(queue), status |-> "queued",
                      fetched |-> FALSE])
           ELSE /\ lastCall'.error \notin {"", "DUPLICATE"}
                /\ addEvent(lastCall'.error) = "queueerror"
                /\ UNCHANGED queueVars]_vars

C22_Witness ==
  /\ lastCall.op = "add"
  /\ lastCall.error = "ERROR"
  /\ Cardinality(ItemsWithUrl(queue, lastCall.value)) = 2

\* C23: after any sequence of add, update, freeze and defrost, the id of
\* every item equals its index in the queue, and no two items share an id.
C23_IdIsIndex ==
  /\ \A i \in 1..Len(queue) : queue[i].id = i - 1
  /\ \A i, j \in 1..Len(queue) : queue[i].id = queue[j].id => i = j

\* C24: after any sequence of add, update and defrost, exists(U) calls
\* back true if and only if some item of the queue has url U.
C24_ExistsIffSomeItemHasUrl ==
  \A url \in Urls : exists(scanIndex, url) <=> ItemsWithUrl(queue, url) # {}

\* C25: after any sequence of add and update calls, oldestUnfetchedItem
\* calls back with the item of lowest index whose status is queued when
\* there is one, and with null only when no item has status queued.
C25_OldestUnfetchedIsLowestQueued ==
  [][queueOldestUnfetchedItem =>
       LET hits == {i \in 1..Len(queue) : queue[i].status = "queued"}
       IN /\ lastCall'.error = ""
          /\ lastCall'.value =
               IF hits = {} THEN 0
               ELSE CHOOSE i \in hits : \A j \in hits : i <= j]_vars

\* The position (from 1) of the first item with status queued, 0 if none.
FirstQueued(q) ==
  LET hits == {i \in 1..Len(q) : q[i].status = "queued"}
  IN IF hits = {} THEN 0 ELSE CHOOSE i \in hits : \A j \in hits : i <= j

\* C26: freeze writes the item sequence of the queue, whatever its length;
\* defrost of the file into a new queue yields that sequence, a scan
\* index equal to the set of the items' URLs and a cursor at the first
\* item with status queued, and the next oldestUnfetchedItem calls back
\* that item, or null when no item is queued, without failing.
C26_FreezeDefrostRoundTrip ==
  /\ [][freeze => file'.written /\ file'.items = queue']_vars
  /\ [][(defrost /\ file.written /\ queue = <<>>) =>
         /\ queue' = file.items
         /\ scanIndex' = {queue'[i].url : i \in 1..Len(queue')}
         /\ FirstQueued(queue') > 0 =>
              oldestUnfetchedIndex' = FirstQueued(queue') - 1]_vars
  /\ [][(/\ lastCall.op = "defrost"
         /\ lastCall.error = ""
         /\ queue = file.items
         /\ queueOldestUnfetchedItem) =>
         /\ lastCall'.error = ""
         /\ lastCall'.value = FirstQueued(queue)]_vars

\* C27: whatever state the crawl is in when freeze is called, every item
\* of the document that freeze writes has status queued or a terminal
\* status; none is written with status spooled or headers.
C27_FrozenItemsQueuedOrTerminal ==
  LET document == jsonRoundTrip(freezeItems(queue))
  IN \A i \in 1..Len(document) :
       document[i].status \in {"queued"} \cup TerminalStatuses

\* An add of a function returns the index of a slot that did not exist
\* before, and that slot holds the function.
AddGivesNewSlot(conditions, conditionsAfter, callback) ==
  /\ lastCall'.error = ""
  /\ lastCall'.value = Len(conditions)
  /\ Len(conditionsAfter) = Len(conditions) + 1
  /\ conditionsAfter[lastCall'.value + 1] = callback.f

\* No slot disappears, and a slot changes only by being emptied.
SlotsKept(conditions, conditionsAfter) ==
  /\ Len(conditionsAfter) >= Len(conditions)
  /\ \A i \in 1..Len(conditions) :
       conditionsAfter[i] \in {conditions[i], "removed"}

\* A removal that returns empties exactly the slot asked for.
RemovalEmptiesOneSlot(conditions, conditionsAfter, id) ==
  \E k \in 1..Len(conditions) :
    /\ conditions[k] # "removed"
    /\ IF id.type = "number" THEN k = id.n + 1 ELSE conditions[k] = id.f
    /\ conditionsAfter = [conditions EXCEPT ![k] = "removed"]

\* C28: after any sequence of adds and removals of fetch conditions, and
\* likewise of download conditions, slot i holds the function whose add
\* returned i or is empty: an add returns a new id, a removal changes
\* only the slot removed, and no slot is renumbered or used again.
C28_PredicateIdsAreStable ==
  /\ [][\A callback \in ConditionArgs :
         /\ (addFetchCondition(callback) /\ callback.type = "function") =>
              AddGivesNewSlot(fetchConditions, fetchConditions', callback)
         /\ (addDownloadCondition(callback)
               /\ callback.type = "function") =>
              AddGivesNewSlot(downloadConditions, downloadConditions',
                              callback)]_vars
  /\ [][/\ SlotsKept(fetchConditions, fetchConditions')
        /\ SlotsKept(downloadConditions, downloadConditions')]_vars
  /\ [][\A id \in ConditionArgs :
         /\ (removeFetchCondition(id) /\ lastCall'.error = "") =>
              RemovalEmptiesOneSlot(fetchConditions, fetchConditions', id)
         /\ (removeDownloadCondition(id) /\ lastCall'.error = "") =>
              RemovalEmptiesOneSlot(downloadConditions,
                                    downloadConditions', id)]_vars

C28_Witness ==
  /\ lastCall.op = "removeFetchCondition"
  /\ lastCall.error = ""
  /\ Len(fetchConditions) = 2
  /\ fetchConditions[1] = "removed"
  /\ fetchConditions[2] # "removed"

\* The id names no live slot: a number that is negative, out of range or
\* the index of an emptied slot, or a function that no slot holds.
NoLiveSlot(conditions, id) ==
  IF id.type = "number"
    THEN \/ id.n < 0
         \/ id.n >= Len(conditions)
         \/ conditions[id.n + 1] = "removed"
    ELSE \A i \in 1..Len(conditions) : conditions[i] # id.f

\* C29: a removal by an id that is negative, out of range or already
\* removed, or by a function that is in no live slot, throws and leaves
\* the condition arrays as they were.
C29_RemovalOfNothingThrows ==
  [][\A id \in ConditionArgs :
       /\ (removeFetchCondition(id) /\ NoLiveSlot(fetchConditions, id)) =>
            /\ lastCall'.error # ""
            /\ UNCHANGED <<fetchConditions, downloadConditions>>
       /\ (/\ removeDownloadCondition(id)
           /\ NoLiveSlot(downloadConditions, id)) =>
            /\ lastCall'.error # ""
            /\ UNCHANGED <<fetchConditions, downloadConditions>>]_vars

C29_Witness ==
  /\ lastCall.op = "removeFetchCondition"
  /\ lastCall.error = "Error"
  /\ \E i \in 1..Len(fetchConditions) : fetchConditions[i] = "removed"

\* The cookies of the jar with the given name and domain.
CookiesFor(jar, name, domain) ==
  {i \in 1..Len(jar) : jar[i].name = name /\ jar[i].domain = domain}

\* C30: after any sequence of CookieJar.add calls the jar holds at most one
\* cookie for a name and a domain, the one added last for them, and an add
\* leaves every cookie with another name or another domain as it was.
C30_JarKeyedByNameAndDomain ==
  /\ [](\A name \in CookieNames, domain \in CookieDomains :
          Cardinality(CookiesFor(cookies, name, domain)) <= 1)
  /\ [][\A name \in CookieNames, value \in CookieValues,
          domain \in CookieDomains :
         cookieJarAdd(name, value, domain) =>
           \A i \in CookiesFor(cookies', name, domain) :
             cookies'[i].value = value]_vars
  /\ [][\A name \in CookieNames, value \in CookieValues,
          domain \in CookieDomains :
         cookieJarAdd(name, value, domain) =>
           \A i \in 1..Len(cookies) :
             (cookies[i].name # name \/ cookies[i].domain # domain) =>
               cookies'[i] = cookies[i]]_vars

isSuffixOf(suffix, str) == startsWith(reverse(str), reverse(suffix))

\* C31: a cookie matches a candidate domain exactly when its stored domain
\* is "*" or its stored domain is a suffix of the candidate domain.
C31_MatchDomainIsStoredSuffixOfCandidate ==
  \A i \in 1..Len(cookies), domain \in CookieDomains \ {<<"*">>} :
    matchDomain(cookies[i], domain) <=>
      (cookies[i].domain = <<"*">> \/ isSuffixOf(cookies[i].domain, domain))

Unexpired(jar) == {i \in 1..Len(jar) : jar[i].expires < 0}

\* C32: getAsHeader(domain, path) returns the cookies that have not expired
\* and match every filter that is given: the domain when a domain is given,
\* the path when a path is given, both when both are given.
C32_GetAsHeaderAppliesEveryFilter ==
  [][\A domain \in CookieDomains \cup {<<>>},
        path \in CookiePaths \cup {<<>>} :
       cookieJarGetAsHeader(domain, path) =>
         LET wanted ==
               {i \in Unexpired(cookies) :
                  /\ domain # <<>> => matchDomain(cookies[i], domain)
                  /\ path # <<>> => matchPath(cookies[i], path)}
             got == getAsHeader(cookies, domain, path)
         IN /\ {got[k] : k \in 1..Len(got)} = wanted
            /\ lastCall'.value = Cardinality(wanted)]_vars

Matching(jar, name, domain) ==
  {i \in 1..Len(jar) :
     /\ name # "" => jar[i].name = name
     /\ domain # <<>> => matchDomain(jar[i], domain)}

\* C33: remove(name, domain) removes the cookies that match the filters
\* given (a filter not given matches every cookie), returns as many cookies
\* as it removed and leaves the other cookies in the jar, in their order.
C33_RemoveTakesExactlyTheMatching ==
  [][\A name \in CookieNames \cup {""},
        domain \in CookieDomains \cup {<<>>} :
       cookieJarRemove(name, domain) =>
         LET gone == Matching(cookies, name, domain)
         IN /\ cookies' = SelectSeq(cookies,
                            LAMBDA c : \A i \in gone : cookies[i] # c)
            /\ lastCall'.value = Cardinality(gone)]_vars

\* C34: Crawler.host changes only when allowInitialDomainChange is set and
\* only in the handling of a redirect response for the item of the initial
\* URL or for an item that a chain of redirects from it queued, in whatever
\* order the responses of the open requests arrive.
C34_HostChangesOnlyOnSeedRedirects ==
  [][host' # host =>
       /\ allowInitialDomainChange
       /\ \E r \in 1..NHostUrls, target \in 1..NHostUrls :
            /\ hostRedirect(r, target)
            /\ requests[r].item \in seedChain]_vars

\* C35: when the item whose pick led to the robots.txt fetch of its origin
\* is disallowed, the callback of its queue.update leaves it fetched with
\* status disallowed, with one fetchdisallowed and no fetchstart, and
\* nothing changes the item or emits an event for it afterwards, also when
\* ticks fire between the robots.txt fetch and that callback.
C35_DisallowedFirstItemIsFinal ==
  /\ [][disallowed =>
          LET i == Head(pendUpdate).id + 1
          IN /\ queue'[i].fetched
             /\ queue'[i].status = "disallowed"
             /\ hist'[i].terms = 1
             /\ hist'[i].starts = 0]_vars
  /\ [][\A i \in 1..Len(queue) :
          queue[i].status = "disallowed" =>
            /\ queue'[i] = queue[i]
            /\ hist'[i] = hist[i]]_vars

\* The origins whose robots.txt fetch is in flight.
RobotsInFlight ==
  {OriginOf(Item(robotsFetch[k]).url) : k \in 1..Len(robotsFetch)}

C37_SubdomainsEndWithDotHost ==
  [][\A h \in DomainHosts :
       (/\ callDomainValid(h)
        /\ domainConfig.filterByDomain
        /\ domainConfig.scanSubdomains
        /\ domainConfig.domainWhitelist = {}) =>
         LET ignore == domainConfig.ignoreWWWDomain
             candidate == IF ignore THEN stripWWW(h) ELSE h
             base == IF ignore THEN stripWWW(host) ELSE host
         IN lastCall'.value = 1 <=>
              \/ candidate = base
              \/ isSuffixOf(<<".">> \o base, candidate)]_vars

\* C38: at most one interval timer of the control loop is active, and
\* from the return of stop() to the next start() none is active, for every
\* sequence of start() and stop() calls, also those made before the
\* deferred timer setup of a start() has run.
C38_AtMostOneTimerNoneWhileStopped ==
  /\ [](Cardinality(timers) <= 1)
  /\ [](~running => timers = {})

\* C39: with queue.freeze called at any time of a running crawl, no item
\* that has been handed to the request engine is picked and handed to it
\* again: no request is made for an item that already has one.
C39_FreezeRequeuesNoItemInFlight ==
  [][spooled =>
       \A r \in 1..Len(requests) :
         requests[r].item # Head(pendUpdate).id]_vars

\* C40: _openListeners is the number of holds that are neither released
\* nor expired and is never negative: the first of release and expiry takes
\* one off for its hold, and a release of a hold that was released or has
\* expired changes nothing.
C40_OpenListenersCountsOpenHolds ==
  /\ [](openListeners =
          Cardinality({h \in 1..Len(holds) : holds[h] = "open"}))
  /\ [](openListeners >= 0)
  /\ [][\A h \in 1..Len(holds) :
          (release(h) \/ expire(h)) =>
            IF holds[h] = "open"
              THEN /\ openListeners' = openListeners - 1
                   /\ holds' = [holds EXCEPT ![h] = "cleared"]
              ELSE UNCHANGED <<openListeners, holds>>]_vars

\* A hold was taken and then released or left to expire.
C40_Witness ==
  /\ \E h \in 1..Len(holds) : holds[h] = "cleared"
  /\ openListeners = 0

====
